---- MODULE Spec2Model ----
(***************************************************************************)
(* Venue availability resolver, vote ledger and location aggregation of   *)
(* the maraismethod backend.                                               *)
(*                                                                         *)
(* Instants are whole seconds since a Sunday 00:00:00 UTC.  A time zone is *)
(* a fixed offset from UTC.  A clock string "HH:mm" is the pair <<h, m>>,  *)
(* and the colon-free string "HHmm" is the number 100*h + m: for strings   *)
(* of four digits the lexicographic order of JavaScript is the numeric     *)
(* order.  Coordinates are points of a line, one unit = 100 m.             *)
(***************************************************************************)
EXTENDS Integers, Sequences, FiniteSets, TLC

\* ------------------------------------------------------------------ bounds
MaxTicks == 2
MaxVotes == 2
MaxVenues == 3
MaxPlaces == 12

\* ------------------------------------------------------- calendar and zones
Hour == 60 * 60
Day == 24 * Hour
Week == 7 * Day

NULL == "NULL"
NoTime == <<>>

Zones == {"UTC", "America/New_York", "America/Chicago"}

\* luxon setZone: offset of the zone from UTC, in seconds
ZoneOffset(zone) ==
    CASE zone = "America/New_York" -> -5 * Hour
      [] zone = "America/Chicago" -> -6 * Hour
      [] OTHER -> 0

\* the civil clock of an instant in a zone, in seconds since the epoch Sunday
LocalSeconds(t, zone) == t + ZoneOffset(zone)

\* luxon DateTime.weekday: 1 = Monday ... 7 = Sunday
LuxonWeekday(t, zone) ==
    LET d == (LocalSeconds(t, zone) \div Day) % 7
    IN  IF d = 0 THEN 7 ELSE d

\* luxon toFormat('HHmm'), as the number 100*HH + mm
ToFormatHHmm(t, zone) ==
    LET s == LocalSeconds(t, zone) % Day
    IN  100 * (s \div Hour) + ((s % Hour) \div 60)

\* String.replace(':', '') on "HH:mm"
StripColon(hm) == 100 * hm[1] + hm[2]


\* ------------------------------------------------------------ the registry
VARIABLES
    now,          \* the wall clock, DateTime.now() / Date.now()
    ticks,        \* how often the clock has advanced (bounds the run)
    venue,        \* table venues: id -> row
    votes,        \* table votes, in insertion order
    adminSetting, \* the single admin_settings row
    cache,        \* cache manager: key -> [value, expires]
    inflight,     \* vote requests between two of their awaits: nr -> request
    enrichment,   \* the provider search in progress and its detail lookups
    response      \* what the last request returned

vars == <<now, ticks, venue, votes, adminSetting, cache, inflight, enrichment,
          response>>

OPEN == "OPEN"
CLOSED == "CLOSED"

\* no provider search is in progress
NoEnrichment ==
    [phase |-> "idle", search |-> FALSE, places |-> <<>>, toEnrich |-> <<>>,
     batch |-> 0, pending |-> {}, results |-> {}]

NoResponse == [kind |-> "none"]

\* dayMapping of convertDBHoursToPeriods
dayMapping(d) ==
    CASE d = "sunday" -> 0
      [] d = "monday" -> 1
      [] d = "tuesday" -> 2
      [] d = "wednesday" -> 3
      [] d = "thursday" -> 4
      [] d = "friday" -> 5
      [] d = "saturday" -> 6

RECURSIVE PeriodsFrom(_, _, _, _)
\* the loop "for (const day of days)" of convertDBHoursToPeriods, from `day` on
PeriodsFrom(day, closedDaysSet, startTimeStr, endTimeStr) ==
    IF day > 6 THEN <<>>
    ELSE IF day \in closedDaysSet
         THEN PeriodsFrom(day + 1, closedDaysSet, startTimeStr, endTimeStr)
         ELSE LET closeDay == IF startTimeStr > endTimeStr
                              THEN (day + 1) % 7
                              ELSE day
              IN  <<[open |-> [day |-> day, time |-> startTimeStr],
                     close |-> [day |-> closeDay, time |-> endTimeStr]]>>
                  \o PeriodsFrom(day + 1, closedDaysSet, startTimeStr, endTimeStr)

\* a closed day shifts nothing: the mutant drops the "continue" of closed days
convertDBHoursToPeriods_KeepsClosedDays(v) ==
    IF v.startTime = NoTime \/ v.endTime = NoTime THEN <<>>
    ELSE PeriodsFrom(0, {}, StripColon(v.startTime), StripColon(v.endTime))

\* the mutant closes an overnight window on the day it opens
convertDBHoursToPeriods_SameDayClose(v) ==
    IF v.startTime = NoTime \/ v.endTime = NoTime THEN <<>>
    ELSE LET ps == PeriodsFrom(0, {dayMapping(d) : d \in v.closedDays},
                               StripColon(v.startTime), StripColon(v.endTime))
         IN  [i \in 1..Len(ps) |-> [ps[i] EXCEPT !.close.day = ps[i].open.day]]

\* VenueHelperService.convertDBHoursToPeriods
convertDBHoursToPeriods(v) ==
    IF v.startTime = NoTime \/ v.endTime = NoTime THEN <<>>
    ELSE PeriodsFrom(0, {dayMapping(d) : d \in v.closedDays},
                     StripColon(v.startTime), StripColon(v.endTime))

RECURSIVE PeriodScan(_, _, _, _)
\* the loop "for (const period of periods)" of isWithinPeriods, from index i on
PeriodScan(periods, i, currentDay, currentTimeStr) ==
    IF i > Len(periods) THEN FALSE
    ELSE LET period == periods[i]
         IN  IF "close" \notin DOMAIN period THEN TRUE
             ELSE IF period.open.day = period.close.day
                  THEN IF /\ currentDay = period.open.day
                          /\ currentTimeStr >= period.open.time
                          /\ currentTimeStr <= period.close.time
                       THEN TRUE
                       ELSE PeriodScan(periods, i + 1, currentDay, currentTimeStr)
                  ELSE IF currentDay = period.open.day
                          /\ currentTimeStr >= period.open.time
                       THEN TRUE
                       ELSE IF currentDay = period.close.day
                               /\ currentTimeStr <= period.close.time
                            THEN TRUE
                            ELSE PeriodScan(periods, i + 1, currentDay,
                                            currentTimeStr)

\* VenueHelperService.isWithinPeriods, at the instant t
isWithinPeriods(periods, timezone, t) ==
    IF Len(periods) = 0 THEN FALSE
    ELSE LET wd == LuxonWeekday(t, timezone)
             currentDay == IF wd = 7 THEN 0 ELSE wd
         IN  PeriodScan(periods, 1, currentDay, ToFormatHHmm(t, timezone))


\* ----------------------------------------------------- the timezone provider
\* Coordinates are points of a meridian, in units of 100 m.
\* the provider's timeZoneId of a coordinate
ProviderTimeZoneId(latitude) ==
    IF latitude < 500 THEN "America/Chicago" ELSE "America/New_York"

\* GoogleMapsService.getTimezone: 'UTC' when the call fails or is not OK
getTimezone(latitude, providerOk) ==
    IF providerOk THEN ProviderTimeZoneId(latitude) ELSE "UTC"

\* ------------------------------------------------------ the vote day boundary
ResetHour == 8
etZone == "America/New_York"

\* the mutant forgets to step back a day before the reset hour
VoteDayStart_NoStepBack(t) ==
    LET nowEt == LocalSeconds(t, etZone)
    IN  (nowEt - (nowEt % Day)) + ResetHour * Hour - ZoneOffset(etZone)

\* voteDayStart of getVenueStatus: nowEt.set({hour: 8, ...}), minus one day
\* when nowEt is before it; returned as an instant
VoteDayStart(t) ==
    LET nowEt == LocalSeconds(t, etZone)
        atEight == (nowEt - (nowEt % Day)) + ResetHour * Hour
        local == IF nowEt < atEight THEN atEight - Day ELSE atEight
    IN  local - ZoneOffset(etZone)

\* venue.votes of the row: the votes whose venueId is id
VotesOf(vs, id) == SelectSeq(vs, LAMBDA v : v.venueId = id)

\* the mutant counts every vote of the venue, whatever its age
TodayVotes_AllVotes(vs, id, t) == VotesOf(vs, id)

\* venue.votes.filter(v => createdAt >= voteDayStart)
TodayVotes(vs, id, t) ==
    SelectSeq(VotesOf(vs, id), LAMBDA v : v.createdAt >= VoteDayStart(t))

\* the mutant is the earlier tie-break: OPEN only on a strict majority
Tally_StrictMajority(vs) ==
    LET openVotes == Len(SelectSeq(vs, LAMBDA v : v.isOpen))
        closedVotes == Len(SelectSeq(vs, LAMBDA v : ~v.isOpen))
    IN  IF openVotes > closedVotes THEN OPEN ELSE CLOSED

\* the tally of a list of votes
Tally(vs) ==
    LET openVotes == Len(SelectSeq(vs, LAMBDA v : v.isOpen))
        closedVotes == Len(SelectSeq(vs, LAMBDA v : ~v.isOpen))
    IN  IF openVotes >= closedVotes THEN OPEN ELSE CLOSED

\* the hours check of getVenueStatus: isStrictlyOpen
StrictlyOpen(v, timezone, t) ==
    isWithinPeriods(convertDBHoursToPeriods(v), timezone, t)

\* the mutant lets the votes decide before the hours are looked at
getVenueStatus_VotesFirst(vt, vs, venueId, tzOk, t) ==
    IF venueId \notin DOMAIN vt THEN CLOSED
    ELSE LET v == vt[venueId]
             timezone == getTimezone(v.latitude, tzOk)
             todayVotes == TodayVotes(vs, venueId, t)
         IN  IF Len(todayVotes) > 0 THEN Tally(todayVotes)
             ELSE IF StrictlyOpen(v, timezone, t) THEN OPEN ELSE CLOSED

\* the mutant is the earlier resolver: no verdict without a vote or a venue
getVenueStatus_NullWithoutVotes(vt, vs, venueId, tzOk, t) ==
    IF venueId \notin DOMAIN vt THEN NULL
    ELSE LET v == vt[venueId]
             timezone == getTimezone(v.latitude, tzOk)
             todayVotes == TodayVotes(vs, venueId, t)
         IN  IF Len(todayVotes) > 0
             THEN (IF StrictlyOpen(v, timezone, t) THEN Tally(todayVotes)
                   ELSE CLOSED)
             ELSE IF StrictlyOpen(v, timezone, t) THEN OPEN ELSE NULL

\* VenueHelperService.getVenueStatus at the instant t over the tables vt
\* (venues) and vs (votes); tzOk tells whether the timezone call succeeds
getVenueStatus(vt, vs, venueId, tzOk, t) ==
    IF venueId \notin DOMAIN vt THEN CLOSED
    ELSE LET v == vt[venueId]
             timezone == getTimezone(v.latitude, tzOk)
             isStrictlyOpen == StrictlyOpen(v, timezone, t)
             todayVotes == TodayVotes(vs, venueId, t)
         IN  IF ~isStrictlyOpen THEN CLOSED
             ELSE IF Len(todayVotes) > 0 THEN Tally(todayVotes)
             ELSE OPEN


\* ------------------------------------------------------------------ geo-math
Abs(x) == IF x < 0 THEN -x ELSE x

\* calculateDistanceInMiles, in units of 10^-7 mile: on a meridian the great
\* circle is the difference of the latitudes, and 100 m are 0.0621371 miles
calculateDistance(lat1, lat2) == Abs(lat1 - lat2) * 621371

\* parseFloat(distance.toFixed(2)), in hundredths of a mile
toFixed2(distance) == (distance + 50000) \div 100000

\* ------------------------------------------------- the external place provider
\* the places the provider knows, in the order it ranks them; openNow is the
\* open_now of the place ("true", "false", NULL without one), periods its
\* opening periods (none when the provider gave no details), beyond how far
\* outside the radius of a nearby search the provider still returns the place
\* (the radius biases its ranking, it is no filter)
GooglePlaces ==
    << [placeId |-> "gA", name |-> "Sky Bar", category |-> "BAR",
        latitude |-> 55, openNow |-> "true", periods |-> <<>>],
       [placeId |-> "gB", name |-> "Neon", category |-> "NIGHT CLUB",
        latitude |-> 3, openNow |-> "true",
        periods |-> <<[open |-> [day |-> 0, time |-> 0]]>>],
       [placeId |-> "gC", name |-> "Corner Diner", category |-> "RESTAURANT",
        latitude |-> 8, openNow |-> NULL, periods |-> <<>>],
       [placeId |-> "gD", name |-> "Old Bar", category |-> "BAR",
        latitude |-> 7, openNow |-> NULL, periods |-> <<>>],
       [placeId |-> "gE", name |-> "Split Bar", category |-> "BAR",
        latitude |-> 300, openNow |-> "true",
        periods |-> <<[open |-> [day |-> 1, time |-> 1100],
                       close |-> [day |-> 1, time |-> 1400]],
                      [open |-> [day |-> 1, time |-> 1700],
                       close |-> [day |-> 1, time |-> 2200]]>>],
       [placeId |-> "gF", name |-> "Daily Bar", category |-> "BAR",
        latitude |-> 300, openNow |-> "true",
        periods |-> <<[open |-> [day |-> 1, time |-> 900],
                       close |-> [day |-> 1, time |-> 1700]],
                      [open |-> [day |-> 2, time |-> 900],
                       close |-> [day |-> 2, time |-> 1700]]>>],
       [placeId |-> "gH", name |-> "Far Lounge", category |-> "LOUNGE",
        latitude |-> 800, openNow |-> NULL, periods |-> <<>>,
        beyond |-> 200] >>

PlaceIds == {GooglePlaces[i].placeId : i \in 1..Len(GooglePlaces)}

\* GoogleMapsService.formatGoogleTime: "HHmm" as "HH:mm"
formatGoogleTime(time) == <<time \div 100, time % 100>>

\* GoogleMapsService.extractAllWeekHours: one entry per period, in its order
extractAllWeekHours(periods) ==
    [i \in 1..Len(periods) |->
        [day |-> periods[i].open.day,
         startTime |-> formatGoogleTime(periods[i].open.time),
         endTime |-> IF "close" \in DOMAIN periods[i]
                     THEN formatGoogleTime(periods[i].close.time)
                     ELSE NoTime]]

\* client.placesNearby: whether the provider returns place p for a search
\* around the coordinate
Returned(p, latitude, radius) ==
    Abs(p.latitude - latitude)
        <= radius + (IF "beyond" \in DOMAIN p THEN p.beyond ELSE 0)

\* the mutant answers with the places although the call failed
searchNearbyVenues_DespiteFailure(latitude, radius, providerOk) ==
    SelectSeq(GooglePlaces, LAMBDA p : Returned(p, latitude, radius))

\* GoogleMapsService.searchNearbyVenues without a search term: the places
\* the provider returns for the radius (in units of 100 m) around the
\* coordinate, [] when the call throws or is not OK
searchNearbyVenues(latitude, radius, providerOk) ==
    IF ~providerOk THEN <<>>
    ELSE SelectSeq(GooglePlaces, LAMBDA p : Returned(p, latitude, radius))

\* ------------------------------------------------------- external place cache
CACHE_TTL_S == 15 * 60

\* the mutant keys the cache by the coordinate itself
getCacheKey_ExactCoordinate(latitude) == latitude

\* VenueCacheService.getCacheKey: floor(latitude / GRID_SIZE), GRID_SIZE being
\* 0.01 degree and a degree 111 km, so a cell is 11.1 units of 100 m
getCacheKey(latitude) == (latitude * 10) \div 111

\* the mutant takes a stored empty list for a miss
CacheHit_NonEmpty(c, key, t) ==
    key \in DOMAIN c /\ t < c[key].expires /\ c[key].value # <<>>

\* cacheManager.get, and the test `if (cached)` of getCachedPlaces: undefined
\* once the entry has expired; a stored list passes the test, an empty one too
CacheHit(c, key, t) == key \in DOMAIN c /\ t < c[key].expires

\* VenueCacheService.getCachedPlaces: the places returned, whether the
\* provider was called, and the cache after
getCachedPlaces(c, latitude, radius, providerOk, t) ==
    LET cacheKey == getCacheKey(latitude)
    IN  IF CacheHit(c, cacheKey, t)
        THEN [places |-> c[cacheKey].value, called |-> FALSE, cache |-> c]
        ELSE LET places == searchNearbyVenues(latitude, radius, providerOk)
                 entry == [value |-> places, expires |-> t + CACHE_TTL_S]
             IN  [places |-> places, called |-> TRUE,
                  cache |-> [k \in DOMAIN c \cup {cacheKey} |->
                                IF k = cacheKey THEN entry ELSE c[k]]]

\* the index of the first place of the list with the identifier, 0 if none
FirstIndex(places, placeId) ==
    IF \E i \in 1..Len(places) : places[i].placeId = placeId
    THEN CHOOSE i \in 1..Len(places) :
            /\ places[i].placeId = placeId
            /\ \A j \in 1..(i - 1) : places[j].placeId # placeId
    ELSE 0

\* VenueCacheService.getCachedPlaceById: the grid-level fetch at the user's
\* coordinate, scanned for the identifier
getCachedPlaceById(c, placeId, latitude, providerOk, t) ==
    LET got == getCachedPlaces(c, latitude, 50, providerOk, t)
        i == FirstIndex(got.places, placeId)
    IN  [found |-> i > 0,
         place |-> IF i > 0 THEN got.places[i] ELSE GooglePlaces[1],
         cache |-> got.cache]


\* ------------------------------------------------------------ vote submission
MAX_DISTANCE_MILES == 10
VOTE_COOLDOWN_S == 30

VenueIds == <<"v1", "v2", "v3", "v4">>

\* the id the store gives the next row of venues
NextVenueId(vt) == VenueIds[Cardinality(DOMAIN vt) + 1]

\* the table with one more row
Insert(vt, row) ==
    [k \in DOMAIN vt \cup {row.id} |-> IF k = row.id THEN row ELSE vt[k]]

\* prisma venue.findUnique({ where: { googlePlaceId } }): the ids found
ByGooglePlaceId(vt, placeId) ==
    {k \in DOMAIN vt : vt[k].googlePlaceId = placeId}

\* the mutant refuses no vote for its distance
TooFar_Never(userLat, v) == FALSE

\* VenueVoteService.validateUserProximity: TRUE when the vote is refused
TooFar(userLat, v) ==
    calculateDistance(userLat, v.latitude) > MAX_DISTANCE_MILES * 10000000

\* the mutant finds no vote in the window
InCooldown_Never(vs, userId, venueId, t) == FALSE

\* the mutant lets a vote of the user on any venue start the window
InCooldown_AnyVenue(vs, userId, venueId, t) ==
    \E i \in 1..Len(vs) :
        /\ vs[i].userId = userId
        /\ vs[i].createdAt >= t - VOTE_COOLDOWN_S

\* VenueVoteService.checkVoteCooldown: TRUE when the vote is refused
InCooldown(vs, userId, venueId, t) ==
    \E i \in 1..Len(vs) :
        /\ vs[i].userId = userId
        /\ vs[i].venueId = venueId
        /\ vs[i].createdAt >= t - VOTE_COOLDOWN_S

\* the unique index operating_hours_venueId_day_key: TRUE when the insert of
\* the rows for one venue is refused, two of them being for one day
operating_hours_venueId_day_key(rows) ==
    \E i, j \in 1..Len(rows) : i < j /\ rows[i].day = rows[j].day

\* VenueVoteService.createVenueFromGooglePlace: the row created from a
\* snapshot, with the operating_hours rows created for it
PromotedRow(vt, place) ==
    [id |-> NextVenueId(vt), name |-> place.name, catgegory |-> place.category,
     latitude |-> place.latitude, startTime |-> NoTime, endTime |-> NoTime,
     closedDays |-> {}, googlePlaceId |-> place.placeId, source |-> "google",
     operatingHours |-> extractAllWeekHours(place.periods)]

\* the mutant answers a place the lookup did not find with the venue it
\* would have created from the first place of the provider
getOrCreateVenue_PromotesUnfound(venueId, userLat, providerOk) ==
    IF venueId.google
    THEN LET hit == ByGooglePlaceId(venue, venueId.ref)
         IN  IF hit # {}
             THEN [code |-> 200, id |-> CHOOSE k \in hit : TRUE,
                   venue |-> venue, cache |-> cache]
             ELSE LET got == getCachedPlaceById(cache, venueId.ref, userLat,
                                                providerOk, now)
                      row == PromotedRow(venue, got.place)
                  IN  [code |-> 200, id |-> row.id,
                       venue |-> Insert(venue, row), cache |-> got.cache]
    ELSE IF venueId.ref \in DOMAIN venue
         THEN [code |-> 200, id |-> venueId.ref, venue |-> venue, cache |-> cache]
         ELSE [code |-> 404, id |-> NULL, venue |-> venue, cache |-> cache]

\* the mutant promotes the place without looking for its venue first
getOrCreateVenue_AlwaysCreates(venueId, userLat, providerOk) ==
    IF venueId.google
    THEN LET got == getCachedPlaceById(cache, venueId.ref, userLat,
                                       providerOk, now)
             row == PromotedRow(venue, got.place)
         IN  IF ~got.found
             THEN [code |-> 404, id |-> NULL, venue |-> venue,
                   cache |-> got.cache]
             ELSE [code |-> 200, id |-> row.id,
                   venue |-> Insert(venue, row), cache |-> got.cache]
    ELSE IF venueId.ref \in DOMAIN venue
         THEN [code |-> 200, id |-> venueId.ref, venue |-> venue, cache |-> cache]
         ELSE [code |-> 404, id |-> NULL, venue |-> venue, cache |-> cache]

\* VenueVoteService.getOrCreateVenue: [code, id, venue table, cache] after it
getOrCreateVenue(venueId, userLat, providerOk) ==
    IF venueId.google
    THEN LET hit == ByGooglePlaceId(venue, venueId.ref)
         IN  IF hit # {}
             THEN [code |-> 200, id |-> CHOOSE k \in hit : TRUE,
                   venue |-> venue, cache |-> cache]
             ELSE LET got == getCachedPlaceById(cache, venueId.ref, userLat,
                                                providerOk, now)
                      row == PromotedRow(venue, got.place)
                  IN  IF ~got.found
                      THEN [code |-> 404, id |-> NULL, venue |-> venue,
                            cache |-> got.cache]
                      ELSE IF operating_hours_venueId_day_key(
                                 row.operatingHours)
                      THEN [code |-> 500, id |-> NULL, venue |-> venue,
                            cache |-> got.cache]
                      ELSE [code |-> 200, id |-> row.id,
                            venue |-> Insert(venue, row), cache |-> got.cache]
    ELSE IF venueId.ref \in DOMAIN venue
         THEN [code |-> 200, id |-> venueId.ref, venue |-> venue, cache |-> cache]
         ELSE [code |-> 404, id |-> NULL, venue |-> venue, cache |-> cache]


\* ------------------------------------------------------------------- requests
\* the clock advances by one of these steps, in seconds
ClockSteps == {1, Hour}

\* the instants a run may start at: Monday and Tuesday of the second
\* week, at UTC 05:30, 08:00, 10:00, 12:59:59 and 18:00
StartInstants ==
    {Week + d * Day + s :
        d \in 1..2,
        s \in {5 * Hour + 30 * 60, 8 * Hour, 10 * Hour, 13 * Hour - 1, 18 * Hour}}
    \ {Week + 2 * Day + 10 * Hour, Week + 2 * Day + 13 * Hour - 1}

Users == {"u1"}
UserLatitudes == {0, 200}

\* the operating hours an administrator may declare
DeclaredHours ==
    { [startTime |-> NoTime, endTime |-> NoTime],
      [startTime |-> <<9, 0>>, endTime |-> NoTime],
      [startTime |-> <<9, 0>>, endTime |-> <<17, 0>>],
      [startTime |-> <<22, 0>>, endTime |-> <<4, 0>>] }
DeclaredClosedDays == { {}, {"monday"} }

\* the row VenueService.create stores for a dto
CreatedRow(vt, dto) ==
    [id |-> NextVenueId(vt), name |-> dto.name, catgegory |-> dto.catgegory,
     latitude |-> dto.latitude, startTime |-> dto.startTime,
     endTime |-> dto.endTime, closedDays |-> dto.closedDays,
     googlePlaceId |-> NULL, source |-> "database"]

\* the clock advances by step seconds
Advance(step) ==
    /\ ticks < MaxTicks
    /\ now' = now + step
    /\ ticks' = ticks + 1
    /\ response' = NoResponse
    /\ UNCHANGED <<venue, votes, adminSetting, cache, inflight, enrichment>>

\* the clock advances
Tick == \E step \in ClockSteps : Advance(step)

\* VenueService.create: an administrator adds a venue; coordsOk is the answer
\* of validateCoordinates
create(dto, coordsOk) ==
    /\ Cardinality(DOMAIN venue) < MaxVenues
    /\ IF ~coordsOk
       THEN /\ response' = [kind |-> "error", code |-> 400]
            /\ UNCHANGED venue
       ELSE LET row == CreatedRow(venue, dto)
            IN  /\ venue' = Insert(venue, row)
                /\ response' = [kind |-> "created", code |-> 200, id |-> row.id]
    /\ UNCHANGED <<now, ticks, votes, adminSetting, cache, inflight, enrichment>>

\* the mutant undoes the promotion when the vote is refused
voteForVenue_RollsBack(userId, venueId, dto, providerOk, tzOk) ==
    \E got \in {getOrCreateVenue(venueId, dto.latitude, providerOk)} :
    LET vote == [userId |-> userId, venueId |-> got.id, isOpen |-> dto.isOpen,
                 createdAt |-> now]
        code == IF got.code # 200 THEN got.code
                ELSE IF adminSetting.shouldValidateLocation
                        /\ TooFar(dto.latitude, got.venue[got.id]) THEN 403
                ELSE IF adminSetting.shouldValidateTime
                        /\ InCooldown(votes, userId, got.id, now) THEN 429
                ELSE 200
    IN  /\ Len(votes) < MaxVotes
        /\ Cardinality(DOMAIN got.venue) <= MaxVenues
        /\ venue' = IF code \in {403, 429} THEN venue ELSE got.venue
        /\ cache' = got.cache
        /\ IF code = 200
           THEN /\ votes' = Append(votes, vote)
                /\ response' =
                     [kind |-> "vote", code |-> 200, userId |-> userId,
                      google |-> venueId.google, ref |-> venueId.ref,
                      latitude |-> dto.latitude, venueId |-> got.id,
                      isOpen |-> dto.isOpen,
                      currentStatus |->
                          getVenueStatus(got.venue, Append(votes, vote),
                                         got.id, tzOk, now)]
           ELSE /\ votes' = votes
                /\ response' =
                     [kind |-> "error", code |-> code, userId |-> userId,
                      google |-> venueId.google, ref |-> venueId.ref,
                      latitude |-> dto.latitude, venueId |-> got.id,
                      miles |-> IF code = 403
                                THEN toFixed2(calculateDistance(dto.latitude,
                                         got.venue[got.id].latitude))
                                ELSE 0]
        /\ UNCHANGED <<now, ticks, adminSetting, inflight, enrichment>>

\* the mutant replaces the earlier votes of the user on the venue
voteForVenue_Upsert(userId, venueId, dto, providerOk, tzOk) ==
    \E got \in {getOrCreateVenue(venueId, dto.latitude, providerOk)} :
    LET vote == [userId |-> userId, venueId |-> got.id, isOpen |-> dto.isOpen,
                 createdAt |-> now]
        code == IF got.code # 200 THEN got.code
                ELSE IF adminSetting.shouldValidateLocation
                        /\ TooFar(dto.latitude, got.venue[got.id]) THEN 403
                ELSE IF adminSetting.shouldValidateTime
                        /\ InCooldown(votes, userId, got.id, now) THEN 429
                ELSE 200
    IN  /\ Len(votes) < MaxVotes
        /\ Cardinality(DOMAIN got.venue) <= MaxVenues
        /\ venue' = got.venue
        /\ cache' = got.cache
        /\ IF code = 200
           THEN /\ votes' = Append(SelectSeq(votes, LAMBDA v :
                                      ~(/\ v.userId = userId
                                        /\ v.venueId = got.id)), vote)
                /\ response' =
                     [kind |-> "vote", code |-> 200, userId |-> userId,
                      google |-> venueId.google, ref |-> venueId.ref,
                      latitude |-> dto.latitude, venueId |-> got.id,
                      isOpen |-> dto.isOpen,
                      currentStatus |->
                          getVenueStatus(got.venue, Append(votes, vote),
                                         got.id, tzOk, now)]
           ELSE /\ votes' = votes
                /\ response' =
                     [kind |-> "error", code |-> code, userId |-> userId,
                      google |-> venueId.google, ref |-> venueId.ref,
                      latitude |-> dto.latitude, venueId |-> got.id,
                      miles |-> IF code = 403
                                THEN toFixed2(calculateDistance(dto.latitude,
                                         got.venue[got.id].latitude))
                                ELSE 0]
        /\ UNCHANGED <<now, ticks, adminSetting, inflight, enrichment>>

\* the mutant resolves the status before it records the vote
voteForVenue_StatusBeforeInsert(userId, venueId, dto, providerOk, tzOk) ==
    \E got \in {getOrCreateVenue(venueId, dto.latitude, providerOk)} :
    LET vote == [userId |-> userId, venueId |-> got.id, isOpen |-> dto.isOpen,
                 createdAt |-> now]
        code == IF got.code # 200 THEN got.code
                ELSE IF adminSetting.shouldValidateLocation
                        /\ TooFar(dto.latitude, got.venue[got.id]) THEN 403
                ELSE IF adminSetting.shouldValidateTime
                        /\ InCooldown(votes, userId, got.id, now) THEN 429
                ELSE 200
    IN  /\ Len(votes) < MaxVotes
        /\ Cardinality(DOMAIN got.venue) <= MaxVenues
        /\ venue' = got.venue
        /\ cache' = got.cache
        /\ IF code = 200
           THEN /\ votes' = Append(votes, vote)
                /\ response' =
                     [kind |-> "vote", code |-> 200, userId |-> userId,
                      google |-> venueId.google, ref |-> venueId.ref,
                      latitude |-> dto.latitude, venueId |-> got.id,
                      isOpen |-> dto.isOpen,
                      currentStatus |->
                          getVenueStatus(got.venue, votes, got.id, tzOk,
                                         now)]
           ELSE /\ votes' = votes
                /\ response' =
                     [kind |-> "error", code |-> code, userId |-> userId,
                      google |-> venueId.google, ref |-> venueId.ref,
                      latitude |-> dto.latitude, venueId |-> got.id,
                      miles |-> IF code = 403
                                THEN toFixed2(calculateDistance(dto.latitude,
                                         got.venue[got.id].latitude))
                                ELSE 0]
        /\ UNCHANGED <<now, ticks, adminSetting, inflight, enrichment>>

\* VenueVoteService.voteForVenue; the response keeps who asked for what from
\* where, and a refusal for distance keeps the miles of its message
voteForVenue(userId, venueId, dto, providerOk, tzOk) ==
    \E got \in {getOrCreateVenue(venueId, dto.latitude, providerOk)} :
    LET vote == [userId |-> userId, venueId |-> got.id, isOpen |-> dto.isOpen,
                 createdAt |-> now]
        code == IF got.code # 200 THEN got.code
                ELSE IF adminSetting.shouldValidateLocation
                        /\ TooFar(dto.latitude, got.venue[got.id]) THEN 403
                ELSE IF adminSetting.shouldValidateTime
                        /\ InCooldown(votes, userId, got.id, now) THEN 429
                ELSE 200
    IN  /\ Len(votes) < MaxVotes
        /\ Cardinality(DOMAIN got.venue) <= MaxVenues
        /\ venue' = got.venue
        /\ cache' = got.cache
        /\ IF code = 200
           THEN /\ votes' = Append(votes, vote)
                /\ response' =
                     [kind |-> "vote", code |-> 200, userId |-> userId,
                      google |-> venueId.google, ref |-> venueId.ref,
                      latitude |-> dto.latitude, venueId |-> got.id,
                      isOpen |-> dto.isOpen,
                      currentStatus |->
                          getVenueStatus(got.venue, Append(votes, vote),
                                         got.id, tzOk, now)]
           ELSE /\ votes' = votes
                /\ response' =
                     [kind |-> "error", code |-> code, userId |-> userId,
                      google |-> venueId.google, ref |-> venueId.ref,
                      latitude |-> dto.latitude, venueId |-> got.id,
                      miles |-> IF code = 403
                                THEN toFixed2(calculateDistance(dto.latitude,
                                         got.venue[got.id].latitude))
                                ELSE 0]
        /\ UNCHANGED <<now, ticks, adminSetting, inflight, enrichment>>

\* VenueHelperService.getVenueStatus, with what it was called on
GetVenueStatus(venueId, tzOk) ==
    /\ response' = [kind |-> "status", venueId |-> venueId,
                    timezone |-> IF venueId \in DOMAIN venue
                                 THEN getTimezone(venue[venueId].latitude, tzOk)
                                 ELSE NULL,
                    isStrictlyOpen |->
                        /\ venueId \in DOMAIN venue
                        /\ StrictlyOpen(venue[venueId],
                               getTimezone(venue[venueId].latitude, tzOk), now),
                    status |-> getVenueStatus(venue, votes, venueId, tzOk, now)]
    /\ UNCHANGED <<now, ticks, venue, votes, adminSetting, cache, inflight, enrichment>>

\* --------------------------------------------------------- location query
RADIUS_KM == 5
allowedCategories == {"NIGHT CLUB", "BAR", "LOUNGE", "SPORTS BAR", "HOTEL BAR"}

\* contains, case-insensitive, over the texts of the model
Contains(text, search) ==
    <<text, search>> \in {<<"Sky Bar", "bar">>, <<"Old Bar", "bar">>,
                         <<"BAR", "bar">>, <<"Harbour", "harbour">>}

\* the rows of a table in the order the store returns them
RECURSIVE RowsFrom(_, _)
RowsFrom(vt, i) ==
    IF i > Len(VenueIds) THEN <<>>
    ELSE IF VenueIds[i] \in DOMAIN vt
         THEN <<vt[VenueIds[i]]>> \o RowsFrom(vt, i + 1)
         ELSE RowsFrom(vt, i + 1)

\* dbWhere of getVenuesByLocation: the text filter when a search term is
\* given, else the box of RADIUS_KM around the coordinate (a degree of
\* latitude is 111 km, so the half-width is 10 * RADIUS_KM units of 100 m)
dbWhere(v, search, latitude) ==
    IF search # NULL
    THEN Contains(v.name, search) \/ Contains(v.catgegory, search)
    ELSE /\ v.latitude >= latitude - 10 * RADIUS_KM
         /\ v.latitude <= latitude + 10 * RADIUS_KM

\* votes: { orderBy: { createdAt: 'desc' }, take } of the venue queries
votesTakeList == 100
votesTakeDetail == 50

\* voteStats of a database venue: total is _count.votes, open and closed are
\* counted over venue.votes, the `take` most recent votes (the votes are kept
\* in the order of their createdAt)
voteStats(vs, id, take) ==
    LET all == VotesOf(vs, id)
        recent == SubSeq(all, IF Len(all) > take THEN Len(all) - take + 1
                              ELSE 1, Len(all))
    IN  [total |-> Len(all),
         open |-> Len(SelectSeq(recent, LAMBDA v : v.isOpen)),
         closed |-> Len(SelectSeq(recent, LAMBDA v : ~v.isOpen))]

\* the response item of a database venue
processedDbVenue(vt, vs, v, latitude, tzOk, t) ==
    [id |-> [google |-> FALSE, ref |-> v.id],
     googlePlaceId |-> v.googlePlaceId,
     category |-> v.catgegory,
     distance |-> toFixed2(calculateDistance(latitude, v.latitude)),
     status |-> getVenueStatus(vt, vs, v.id, tzOk, t),
     voteStats |-> voteStats(vs, v.id, votesTakeList),
     source |-> "database"]

\* VenueHelperService.transformGooglePlaceToVenue
transformGooglePlaceToVenue(place, latitude, tzOk, t) ==
    [id |-> [google |-> TRUE, ref |-> place.placeId],
     googlePlaceId |-> place.placeId,
     category |-> place.category,
     distance |-> toFixed2(calculateDistance(latitude, place.latitude)),
     status |-> IF isWithinPeriods(place.periods,
                                   getTimezone(place.latitude, tzOk), t)
                THEN OPEN ELSE CLOSED,
     source |-> "google"]

\* steps 4 and 5 of getVenuesByLocation: the places whose identifier no
\* database venue of the query carries
SurvivingPlaces(googlePlaces, dbVenues) ==
    LET dbGooglePlaceIds ==
            {dbVenues[i].googlePlaceId : i \in 1..Len(dbVenues)} \ {NULL}
    IN  SelectSeq(googlePlaces, LAMBDA p : p.placeId \notin dbGooglePlaceIds)

RECURSIVE InsertByDistance(_, _)
\* x put into the sorted list behind every item that is not farther
InsertByDistance(sorted, x) ==
    IF sorted = <<>> THEN <<x>>
    ELSE IF Head(sorted).distance - x.distance <= 0
         THEN <<Head(sorted)>> \o InsertByDistance(Tail(sorted), x)
         ELSE <<x>> \o sorted

RECURSIVE SortFrom(_, _, _)
SortFrom(items, i, sorted) ==
    IF i > Len(items) THEN sorted
    ELSE SortFrom(items, i + 1, InsertByDistance(sorted, items[i]))

\* the mutant leaves the merged list as it was concatenated
sortByDistance_Unsorted(items) == items

\* allVenues.sort((a, b) => a.distance - b.distance): ascending and stable
sortByDistance(items) == SortFrom(items, 1, <<>>)

\* Array.prototype.slice(start, end) for 0 <= start <= end
slice(items, start, end) ==
    SubSeq(items, start + 1, IF end < Len(items) THEN end ELSE Len(items))

\* VenuePublicService.getVenuesByLocation; each constant of the handler is
\* bound once, in the order the handler computes it
getVenuesByLocation(dto, providerOk, tzOk) ==
    \E dbVenues \in {SelectSeq(RowsFrom(venue, 1),
                        LAMBDA v : dbWhere(v, dto.search, dto.latitude))},
       got \in {getCachedPlaces(cache, dto.latitude, 10 * RADIUS_KM,
                                providerOk, now)} :
    \E googlePlaces \in
          {IF dto.search # NULL
           THEN SelectSeq(got.places,
                   LAMBDA p : Contains(p.name, dto.search)
                              \/ Contains(p.category, dto.search))
           ELSE got.places},
       processedDbVenues \in
          {[i \in 1..Len(dbVenues) |->
               processedDbVenue(venue, votes, dbVenues[i], dto.latitude,
                                tzOk, now)]} :
    \E kept \in {SurvivingPlaces(googlePlaces, dbVenues)} :
    \E googleVenuesRaw \in
          {[i \in 1..Len(kept) |->
               transformGooglePlaceToVenue(kept[i], dto.latitude, tzOk, now)]} :
    \E googleVenues \in
          {SelectSeq(googleVenuesRaw,
              LAMBDA v : v.category \in allowedCategories)} :
    \E allVenues \in {sortByDistance(processedDbVenues \o googleVenues)},
       skip \in {(dto.page - 1) * dto.limit} :
        /\ cache' = got.cache
        /\ response' =
             [kind |-> "venues", code |-> 200,
              latitude |-> dto.latitude, search |-> dto.search,
              page |-> dto.page, limit |-> dto.limit,
              providerCalled |-> got.called,
              providerFailed |-> got.called /\ ~providerOk,
              merged |-> processedDbVenues \o googleVenues,
              allVenues |-> allVenues,
              venues |-> slice(allVenues, skip, skip + dto.limit),
              total |-> Len(allVenues)]
        /\ UNCHANGED <<now, ticks, venue, votes, adminSetting, inflight, enrichment>>

\* ------------------------------------------------------------ point lookup
\* GoogleMapsService.getPlaceDetails: the index of the place in what the
\* provider knows, 0 (null) when it knows none or the call fails
getPlaceDetails(placeId, providerOk) ==
    IF providerOk THEN FirstIndex(GooglePlaces, placeId) ELSE 0

\* VenuePublicService.getDatabaseVenueDetails; a coordinate of 0 is taken as
\* not given
getDatabaseVenueDetails(v, dto, tzOk) ==
    [id |-> [google |-> FALSE, ref |-> v.id],
     googlePlaceId |-> v.googlePlaceId,
     distance |-> IF dto.latitude # 0
                  THEN toFixed2(calculateDistance(dto.latitude, v.latitude))
                  ELSE -1,
     status |-> getVenueStatus(venue, votes, v.id, tzOk, now),
     voteStats |-> voteStats(votes, v.id, votesTakeDetail),
     source |-> "database"]

\* the answer of getVenueById with what it was asked
Answer(venueId, code, item) ==
    [kind |-> "venue", code |-> code, google |-> venueId.google,
     ref |-> venueId.ref, item |-> item]

\* the mutant asks the provider before it looks into the registry
getVenueById_ProviderFirst(venueId, dto, providerOk, tzOk) ==
    /\ IF venueId.google
       THEN LET details == getPlaceDetails(venueId.ref, providerOk)
                dbVenue == ByGooglePlaceId(venue, venueId.ref)
            IN  IF details # 0
                THEN response' = Answer(venueId, 200,
                        [k \in {"id", "googlePlaceId", "distance", "status",
                                "source"} |->
                           transformGooglePlaceToVenue(GooglePlaces[details],
                               dto.latitude, tzOk, now)[k]])
                ELSE IF dbVenue # {}
                     THEN response' = Answer(venueId, 200,
                             getDatabaseVenueDetails(
                                venue[CHOOSE k \in dbVenue : TRUE], dto, tzOk))
                     ELSE response' = Answer(venueId, 404, <<>>)
       ELSE IF venueId.ref \in DOMAIN venue
            THEN response' = Answer(venueId, 200,
                    getDatabaseVenueDetails(venue[venueId.ref], dto, tzOk))
            ELSE response' = Answer(venueId, 404, <<>>)
    /\ UNCHANGED <<now, ticks, venue, votes, adminSetting, cache, inflight, enrichment>>

\* VenuePublicService.getVenueById
getVenueById(venueId, dto, providerOk, tzOk) ==
    /\ IF venueId.google
       THEN LET dbVenue == ByGooglePlaceId(venue, venueId.ref)
                details == getPlaceDetails(venueId.ref, providerOk)
            IN  IF dbVenue # {}
                THEN response' = Answer(venueId, 200,
                        getDatabaseVenueDetails(
                           venue[CHOOSE k \in dbVenue : TRUE], dto, tzOk))
                ELSE IF details = 0
                     THEN response' = Answer(venueId, 404, <<>>)
                     ELSE response' = Answer(venueId, 200,
                             [k \in {"id", "googlePlaceId", "distance",
                                     "status", "source"} |->
                                transformGooglePlaceToVenue(
                                   GooglePlaces[details], dto.latitude, tzOk,
                                   now)[k]])
       ELSE IF venueId.ref \in DOMAIN venue
            THEN response' = Answer(venueId, 200,
                    getDatabaseVenueDetails(venue[venueId.ref], dto, tzOk))
            ELSE response' = Answer(venueId, 404, <<>>)
    /\ UNCHANGED <<now, ticks, venue, votes, adminSetting, cache, inflight, enrichment>>

\* the settings an operator may have chosen
AdminSettings ==
    { [shouldValidateLocation |-> TRUE, shouldValidateTime |-> TRUE],
      [shouldValidateLocation |-> FALSE, shouldValidateTime |-> FALSE] }

\* ------------------------------------------ the resolver over one venue (Spec)
\* the registry holds one venue an administrator created, with any of the
\* declared hours and closed days
Init ==
    /\ now \in StartInstants
    /\ ticks = 0
    /\ \E h \in DeclaredHours, cd \in DeclaredClosedDays :
          venue = Insert(<<>>, CreatedRow(<<>>,
                      [name |-> "Harbour", catgegory |-> "BAR", latitude |-> 0,
                       startTime |-> h.startTime, endTime |-> h.endTime,
                       closedDays |-> cd]))
    /\ votes = <<>>
    /\ adminSetting \in AdminSettings
    /\ cache = <<>>
    /\ inflight = <<>>
    /\ enrichment = NoEnrichment
    /\ response = NoResponse

UserVotes ==
    \E u \in Users, id \in {"v1", "v9"}, isOpen \in BOOLEAN,
       lat \in UserLatitudes, tzOk \in BOOLEAN :
        voteForVenue(u, [google |-> FALSE, ref |-> id],
                     [isOpen |-> isOpen, latitude |-> lat], TRUE, tzOk)

StatusQueries ==
    \E id \in {"v1", "v9"}, tzOk \in BOOLEAN : GetVenueStatus(id, tzOk)

Next == Tick \/ UserVotes \/ StatusQueries

Spec == Init /\ [][Next]_vars


\* ===================================================== the resolver's claims
\* the last request was a status query on a venue of the registry
StatusOfVenue == response.kind = "status" /\ response.venueId \in DOMAIN venue

\* the venue declares operating hours
HasHours(v) == v.startTime # NoTime /\ v.endTime # NoTime

\* the votes of a venue recorded at or after an instant, open or not
VotesSince(id, from, isOpen) ==
    {i \in 1..Len(votes) :
        /\ votes[i].venueId = id
        /\ votes[i].createdAt >= from
        /\ votes[i].isOpen = isOpen}
CountSince(id, from, isOpen) == Cardinality(VotesSince(id, from, isOpen))
AnySince(id, from) == VotesSince(id, from, TRUE) \cup VotesSince(id, from, FALSE)

\* the weekday (0 = Sunday) and the clock reading HHmm of an instant in a zone
Today(t, zone) == (LocalSeconds(t, zone) \div Day) % 7
Yesterday(t, zone) == (Today(t, zone) + 6) % 7
ClockHHmm(t, zone) ==
    LET s == LocalSeconds(t, zone) % Day
    IN  100 * (s \div Hour) + (s % Hour) \div 60
ClosedWeekdays(v) ==
    {d \in 0..6 : \E n \in v.closedDays :
        n = <<"sunday", "monday", "tuesday", "wednesday", "thursday",
              "friday", "saturday">>[d + 1]}

\* C1: for a venue with declared hours, a status query made while the hours
\* check fails in the venue's time zone returns CLOSED, whatever the votes.
C1_HoursOverrideVotes ==
    (StatusOfVenue /\ HasHours(venue[response.venueId])
                   /\ ~response.isStrictlyOpen)
        => response.status = CLOSED

\* C1 witness: outside the hours, every vote since the boundary says open
C1_Witness ==
    /\ StatusOfVenue
    /\ HasHours(venue[response.venueId])
    /\ ~response.isStrictlyOpen
    /\ CountSince(response.venueId, VoteDayStart(now), TRUE) >= 1
    /\ CountSince(response.venueId, VoteDayStart(now), FALSE) = 0
    /\ response.status = CLOSED

\* C2: when the hours check passes and a vote exists since the boundary, the
\* status is OPEN exactly when the open votes since the boundary are at least
\* as many as the closed ones.
C2_MajorityTieOpen ==
    (StatusOfVenue /\ response.isStrictlyOpen
                   /\ AnySince(response.venueId, VoteDayStart(now)) # {})
        => (response.status = OPEN <=>
                CountSince(response.venueId, VoteDayStart(now), TRUE)
                    >= CountSince(response.venueId, VoteDayStart(now), FALSE))

\* C2 witness: one open and one closed vote since the boundary resolve to OPEN
C2_Witness ==
    /\ StatusOfVenue
    /\ response.isStrictlyOpen
    /\ CountSince(response.venueId, VoteDayStart(now), TRUE) = 1
    /\ CountSince(response.venueId, VoteDayStart(now), FALSE) = 1
    /\ response.status = OPEN

\* the instant b is the most recent one, at or before t, at which the clock of
\* America/New_York reads 08:00:00
MostRecentReset(b, t) ==
    /\ b <= t
    /\ t - b < Day
    /\ LocalSeconds(b, "America/New_York") % Day = 8 * Hour

\* C3: the vote boundary is the most recent 08:00 of America/New_York at or
\* before now; in whatever zone the venue lies, a status query whose hours
\* check passes tallies exactly the votes recorded at that instant or later.
C3_ResetBoundary ==
    /\ MostRecentReset(VoteDayStart(now), now)
    /\ (StatusOfVenue /\ response.isStrictlyOpen)
          => (response.status = OPEN <=>
                 CountSince(response.venueId, VoteDayStart(now), TRUE)
                     >= CountSince(response.venueId, VoteDayStart(now), FALSE))

\* C3 witness: an open vote one second before the boundary and a closed vote
\* at the boundary: only the later is counted, so the status is CLOSED
C3_Witness ==
    /\ StatusOfVenue
    /\ response.isStrictlyOpen
    /\ \E i, j \in 1..Len(votes) :
          /\ votes[i].venueId = response.venueId
          /\ votes[j].venueId = response.venueId
          /\ votes[i].isOpen /\ votes[i].createdAt = VoteDayStart(now) - 1
          /\ ~votes[j].isOpen /\ votes[j].createdAt = VoteDayStart(now)
    /\ Len(votes) = 2
    /\ response.status = CLOSED

\* C4: with declared hours, the hours check passing and no vote since the
\* boundary, the status is OPEN, whatever older votes say.
C4_HoursAloneSuffice ==
    (StatusOfVenue /\ HasHours(venue[response.venueId])
                   /\ response.isStrictlyOpen
                   /\ AnySince(response.venueId, VoteDayStart(now)) = {})
        => response.status = OPEN

\* C4 witness: the only vote is a closed one older than the boundary
C4_Witness ==
    /\ StatusOfVenue
    /\ response.isStrictlyOpen
    /\ AnySince(response.venueId, VoteDayStart(now)) = {}
    /\ \E i \in 1..Len(votes) :
          votes[i].venueId = response.venueId /\ ~votes[i].isOpen
    /\ response.status = OPEN


\* C5: a venue without declared hours that has a vote since the boundary is
\* resolved by the tally of those votes: OPEN exactly when the open votes are
\* at least as many as the closed ones.
C5_UndeclaredHoursTallyVotes ==
    (StatusOfVenue /\ ~HasHours(venue[response.venueId])
                   /\ AnySince(response.venueId, VoteDayStart(now)) # {})
        => (response.status = OPEN <=>
                CountSince(response.venueId, VoteDayStart(now), TRUE)
                    >= CountSince(response.venueId, VoteDayStart(now), FALSE))

\* C6: a status query on a venue without declared hours and without votes, or
\* on an id that matches no venue, returns the status value CLOSED.
C6_NoHoursNoVotesClosed ==
    (response.kind = "status"
        /\ (response.venueId \in DOMAIN venue =>
               /\ ~HasHours(venue[response.venueId])
               /\ \A i \in 1..Len(votes) : votes[i].venueId # response.venueId))
        => (response.status \in {OPEN, CLOSED} /\ response.status = CLOSED)

\* C6 witness: both cases have been queried: here the unknown id
C6_Witness ==
    /\ response.kind = "status"
    /\ \/ response.venueId \notin DOMAIN venue
       \/ (~HasHours(venue[response.venueId]) /\ votes = <<>>)
    /\ response.status = CLOSED
    /\ \E k \in DOMAIN venue : ~HasHours(venue[k])

\* the hours check of a status query, as the venue's hours and closed days give
\* it: on a day that is not closed, from the start on; after midnight until the
\* end, when the day before is not closed
OvernightVerdict(v, zone, t) ==
    \/ /\ Today(t, zone) \notin ClosedWeekdays(v)
       /\ ClockHHmm(t, zone) >= StripColon(v.startTime)
    \/ /\ Yesterday(t, zone) \notin ClosedWeekdays(v)
       /\ ClockHHmm(t, zone) <= StripColon(v.endTime)

\* the venue of the last status query has an overnight window today
OvernightToday ==
    /\ StatusOfVenue
    /\ HasHours(venue[response.venueId])
    /\ StripColon(venue[response.venueId].startTime)
          > StripColon(venue[response.venueId].endTime)
    /\ Today(now, response.timezone)
          \notin ClosedWeekdays(venue[response.venueId])

\* C7 as claimed: with an overnight window today, the hours check passes
\* exactly when the local clock is at or after the start or at or before the
\* end, whatever the day before is.
C7_OvernightTodayOnly ==
    OvernightToday =>
        (response.isStrictlyOpen <=>
            \/ ClockHHmm(now, response.timezone)
                  >= StripColon(venue[response.venueId].startTime)
            \/ ClockHHmm(now, response.timezone)
                  <= StripColon(venue[response.venueId].endTime))

\* C7 as amended: with an overnight window today, the hours check passes
\* exactly when the local clock is at or after the start, or at or before the
\* end on a day whose eve is not a closed day.
C7_OvernightWrap ==
    OvernightToday =>
        (response.isStrictlyOpen <=>
            OvernightVerdict(venue[response.venueId], response.timezone, now))

\* C7 witness: within hours in the early hours that follow an open day
C7_Witness ==
    /\ OvernightToday
    /\ ClockHHmm(now, response.timezone)
          <= StripColon(venue[response.venueId].endTime)
    /\ response.isStrictlyOpen
    /\ response.status = OPEN

\* the venue of the last status query is closed on the local weekday
ClosedToday ==
    /\ StatusOfVenue
    /\ HasHours(venue[response.venueId])
    /\ Today(now, response.timezone) \in ClosedWeekdays(venue[response.venueId])

\* C8 as claimed: on a closed weekday the hours check fails at every time of
\* day and the venue resolves to CLOSED.
C8_ClosedWeekdayAlways ==
    ClosedToday => (~response.isStrictlyOpen /\ response.status = CLOSED)

\* C8 as amended: on a closed weekday the hours check fails, and the venue
\* resolves to CLOSED, at every time of day except from midnight to the end of
\* an overnight window that the day before, not a closed day, has opened.
C8_ClosedWeekday ==
    ClosedToday =>
        LET v == venue[response.venueId]
            spill == /\ StripColon(v.startTime) > StripColon(v.endTime)
                     /\ Yesterday(now, response.timezone) \notin ClosedWeekdays(v)
                     /\ ClockHHmm(now, response.timezone) <= StripColon(v.endTime)
        IN  /\ response.isStrictlyOpen <=> spill
            /\ ~spill => response.status = CLOSED

\* C8 witness: a closed weekday, later than any overnight window reaches
C8_Witness ==
    /\ ClosedToday
    /\ ClockHHmm(now, response.timezone)
          > StripColon(venue[response.venueId].endTime)
    /\ StripColon(venue[response.venueId].startTime)
          > StripColon(venue[response.venueId].endTime)
    /\ ClockHHmm(now, response.timezone)
          >= StripColon(venue[response.venueId].startTime)
    /\ response.status = CLOSED


\* ------------------------------- the aggregation over both sources (SpecAgg)
QueryLatitudes == {0, 5}
Pages == {1, 2}
Limits == {2}
Searches == {NULL, "bar"}

InitAgg ==
    /\ now = Week + Day + 18 * Hour
    /\ ticks = 0
    /\ venue = <<>>
    /\ votes = <<>>
    /\ adminSetting = [shouldValidateLocation |-> TRUE,
                       shouldValidateTime |-> TRUE]
    /\ cache = <<>>
    /\ inflight = <<>>
    /\ enrichment = NoEnrichment
    /\ response = NoResponse

\* an administrator adds the first venue of the registry
AdminCreates ==
    /\ venue = <<>>
    /\ \E lat \in {4}, coordsOk \in BOOLEAN :
        create([name |-> "Harbour", catgegory |-> "BAR", latitude |-> lat,
                startTime |-> <<9, 0>>, endTime |-> <<17, 0>>,
                closedDays |-> {}], coordsOk)

PlaceVotes ==
    \E u \in Users, id \in {[google |-> TRUE, ref |-> "gA"],
                           [google |-> TRUE, ref |-> "gZ"],
                           [google |-> FALSE, ref |-> "v1"]},
       isOpen \in BOOLEAN, lat \in {5} :
        voteForVenue(u, id, [isOpen |-> isOpen, latitude |-> lat],
                     TRUE, TRUE)

LocationQueries ==
    \E lat \in QueryLatitudes, p \in Pages, l \in Limits,
       s \in Searches, providerOk \in BOOLEAN :
        getVenuesByLocation([page |-> p, limit |-> l,
                             search |-> s, latitude |-> lat],
                            providerOk, TRUE)

\* the clock advances past the life of a cache entry
CacheExpires == Advance(Hour)

NextAgg == CacheExpires \/ AdminCreates \/ PlaceVotes \/ LocationQueries

SpecAgg == InitAgg /\ [][NextAgg]_vars

\* ------------------------------------------- the vote submission (SpecVote)
\* the seconds the clock advances by between two requests: half the cooldown
\* window, and one second more
VoteSteps == {VOTE_COOLDOWN_S \div 2, VOTE_COOLDOWN_S \div 2 + 1}
VoteUsers == {"u1", "u2"}
VotedIds == {[google |-> FALSE, ref |-> "v1"], [google |-> TRUE, ref |-> "gA"]}
AllAdminSettings ==
    [shouldValidateLocation : BOOLEAN, shouldValidateTime : BOOLEAN]

\* the registry holds one venue an administrator created, open at noon
InitVote ==
    /\ now = Week + Day + 18 * Hour
    /\ ticks = 0
    /\ venue = Insert(<<>>, CreatedRow(<<>>,
                  [name |-> "Harbour", catgegory |-> "BAR", latitude |-> 0,
                   startTime |-> <<9, 0>>, endTime |-> <<17, 0>>,
                   closedDays |-> {}]))
    /\ votes = <<>>
    /\ adminSetting \in AllAdminSettings
    /\ cache = <<>>
    /\ inflight = <<>>
    /\ enrichment = NoEnrichment
    /\ response = NoResponse

\* some seconds pass between two requests
Wait == \E step \in VoteSteps : Advance(step)

\* users next to the venue vote on it and on a place of the provider
Votes ==
    \E u \in VoteUsers, id \in VotedIds, isOpen \in BOOLEAN :
        voteForVenue(u, id, [isOpen |-> isOpen, latitude |-> 5], TRUE, TRUE)

NextVote == Wait \/ Votes

SpecVote == InitVote /\ [][NextVote]_vars

\* ------------------------------------------- the point lookup (SpecLookup)
\* a user next to the venue looks up a venue or a place of the provider
Lookups ==
    \E id \in VotedIds \cup {[google |-> TRUE, ref |-> "gB"],
                             [google |-> TRUE, ref |-> "gZ"]},
       lat \in {0, 5}, providerOk \in BOOLEAN :
        getVenueById(id, [latitude |-> lat], providerOk, TRUE)

\* the user votes on the venue and on a place of the provider
LookupVotes ==
    \E id \in VotedIds, isOpen \in BOOLEAN :
        voteForVenue("u1", id, [isOpen |-> isOpen, latitude |-> 5], TRUE, TRUE)

\* an hour passes
HourPasses == Advance(Hour)

NextLookup == HourPasses \/ LookupVotes \/ Lookups

SpecLookup == InitVote /\ [][NextLookup]_vars

\* --------------------------------------- the refusals of a vote (SpecRefusal)
\* the user stands near the venue, just inside or just outside the radius
VoterLatitudes == {5, 160, 161}
RefusedIds == VotedIds \cup {[google |-> FALSE, ref |-> "v9"],
                             [google |-> TRUE, ref |-> "gZ"]}

\* one user votes from anywhere on anything, the provider up or down
VotesFromAnywhere ==
    \E id \in RefusedIds, lat \in VoterLatitudes, providerOk \in BOOLEAN :
        voteForVenue("u1", id, [isOpen |-> TRUE, latitude |-> lat],
                     providerOk, TRUE)

NextRefusal == HourPasses \/ VotesFromAnywhere

SpecRefusal == InitVote /\ [][NextRefusal]_vars

\* ---------------------------------------------- claims on the location query
\* how often an item occurs in a list
Occurrences(items, x) == Cardinality({i \in 1..Len(items) : items[i] = x})

\* C9: in the response to any coordinate query no two items share an external
\* identifier, and an external identifier an internal venue carries is
\* answered by that internal venue (source 'database'), never by the
\* provider's snapshot, whatever request filled the cache entry of the cell.
C9_DedupInvariant ==
    response.kind = "venues" =>
        LET items == response.venues
        IN  /\ \A i, j \in 1..Len(items) :
                  (i # j /\ items[i].googlePlaceId # NULL)
                      => items[i].googlePlaceId # items[j].googlePlaceId
            /\ \A k \in DOMAIN venue, i \in 1..Len(items) :
                  (venue[k].googlePlaceId # NULL
                   /\ items[i].googlePlaceId = venue[k].googlePlaceId)
                      => (items[i].source = "database"
                          /\ items[i].id = [google |-> FALSE, ref |-> k])

\* C10: the items of a page are in ascending order of distance, and the page
\* is the slice [(page-1)*limit, page*limit) of the whole merged list of
\* internal and external items sorted ascending by distance.
C10_SortedPaging ==
    response.kind = "venues" =>
        LET returned == response.venues
            all == response.allVenues
            lo == (response.page - 1) * response.limit
            hi == response.page * response.limit
        IN  /\ \A i \in 1..(Len(returned) - 1) :
                  returned[i].distance <= returned[i + 1].distance
            /\ \A i, j \in 1..Len(all) :
                  i < j => all[i].distance <= all[j].distance
            /\ Len(all) = Len(response.merged)
            /\ \A i \in 1..Len(all) :
                  Occurrences(all, all[i]) = Occurrences(response.merged, all[i])
            /\ Len(returned) = Cardinality({k \in 1..Len(all) : lo < k /\ k <= hi})
            /\ \A i \in 1..Len(returned) : returned[i] = all[lo + i]

\* a second page of a list that holds internal and external items and was
\* not in order of distance when it was merged
C10_Witness ==
    /\ response.kind = "venues"
    /\ response.page = 2
    /\ Len(response.venues) > 0
    /\ \E i, j \in 1..Len(response.merged) :
          /\ response.merged[i].source = "database"
          /\ response.merged[j].source = "google"
    /\ \E i, j \in 1..Len(response.merged) :
          /\ i < j
          /\ response.merged[i].distance > response.merged[j].distance

\* ------------------------------------------ the place cache alone (SpecCache)
\* VenueCacheService.getCachedPlaces with its default radius of 5000 m, and
\* what it was called on
GetCachedPlaces(latitude, providerOk) ==
    \E got \in {getCachedPlaces(cache, latitude, 50, providerOk, now)} :
        /\ cache' = got.cache
        /\ response' = [kind |-> "places", latitude |-> latitude,
                        places |-> got.places, called |-> got.called]
        /\ UNCHANGED <<now, ticks, venue, votes, adminSetting, inflight, enrichment>>

\* coordinates of three cells, two of them in the first
CacheLatitudes == {0, 5, 12, 200}
\* a second, and one second less than the life of an entry
CacheSteps == {1, CACHE_TTL_S - 1}

InitCache ==
    /\ now = Week + Day + 18 * Hour
    /\ ticks = 0
    /\ venue = <<>>
    /\ votes = <<>>
    /\ adminSetting = [shouldValidateLocation |-> TRUE,
                       shouldValidateTime |-> TRUE]
    /\ cache = <<>>
    /\ inflight = <<>>
    /\ enrichment = NoEnrichment
    /\ response = NoResponse

CacheAges == \E step \in CacheSteps : Advance(step)

PlaceRequests ==
    \E lat \in CacheLatitudes, providerOk \in BOOLEAN :
        GetCachedPlaces(lat, providerOk)

NextCache == CacheAges \/ PlaceRequests

SpecCache == InitCache /\ [][NextCache]_vars

\* --------------------------- vote requests that overlap, await by await
\* the answer to a vote request that failed
Refusal(req, code) ==
    [kind |-> "error", code |-> code, userId |-> req.userId,
     google |-> req.google, ref |-> req.ref, latitude |-> req.latitude,
     venueId |-> req.venueId,
     miles |-> IF code = 403
               THEN toFixed2(calculateDistance(req.latitude,
                                               venue[req.venueId].latitude))
               ELSE 0]

\* the requests in flight with request r at its next await
Proceed(r, req) ==
    [k \in DOMAIN inflight \cup {r} |-> IF k = r THEN req ELSE inflight[k]]

\* the requests in flight without request r
Done(r) == [k \in DOMAIN inflight \ {r} |-> inflight[k]]

\* the mutant is the store without the unique index on venues.googlePlaceId
venues_googlePlaceId_key_Dropped(vt, placeId) == FALSE

\* the unique index venues_googlePlaceId_key: TRUE when an insert of a row
\* with the identifier is refused
venues_googlePlaceId_key(vt, placeId) == ByGooglePlaceId(vt, placeId) # {}

\* voteForVenue up to the answer of the first findUnique of getOrCreateVenue
findVenue(r, userId, venueId, dto) ==
    LET hit == IF venueId.google THEN ByGooglePlaceId(venue, venueId.ref)
               ELSE {venueId.ref} \cap DOMAIN venue
        req == [pc |-> IF hit # {} THEN "check" ELSE "fetch",
                userId |-> userId, google |-> venueId.google,
                ref |-> venueId.ref, isOpen |-> dto.isOpen,
                latitude |-> dto.latitude,
                venueId |-> IF hit # {} THEN CHOOSE k \in hit : TRUE ELSE NULL,
                seen |-> 0]
    IN  /\ r \notin DOMAIN inflight
        /\ Len(votes) + Cardinality(DOMAIN inflight) < MaxVotes
        /\ IF hit = {} /\ ~venueId.google
           THEN /\ response' = Refusal(req, 404)
                /\ UNCHANGED inflight
           ELSE /\ inflight' = Proceed(r, req)
                /\ response' = NoResponse
        /\ UNCHANGED <<now, ticks, venue, votes, adminSetting, cache, enrichment>>

\* createVenueFromGooglePlace up to the answer of getCachedPlaceById
fetchPlace(r, providerOk) ==
    /\ r \in DOMAIN inflight
    /\ inflight[r].pc = "fetch"
    /\ \E got \in {getCachedPlaceById(cache, inflight[r].ref,
                                      inflight[r].latitude, providerOk, now)} :
          /\ cache' = got.cache
          /\ IF got.found
             THEN /\ inflight' = Proceed(r, [inflight[r] EXCEPT !.pc = "create"])
                  /\ response' = NoResponse
             ELSE /\ inflight' = Done(r)
                  /\ response' = Refusal(inflight[r], 404)
    /\ UNCHANGED <<now, ticks, venue, votes, adminSetting, enrichment>>

\* the mutant answers the refusal of the index by looking the venue up again
createVenue_Reattaches(r) ==
    /\ r \in DOMAIN inflight
    /\ inflight[r].pc = "create"
    /\ LET place == GooglePlaces[FirstIndex(GooglePlaces, inflight[r].ref)]
           row == PromotedRow(venue, place)
       IN  IF \/ venues_googlePlaceId_key(venue, inflight[r].ref)
              \/ operating_hours_venueId_day_key(row.operatingHours)
           THEN /\ ByGooglePlaceId(venue, inflight[r].ref) # {}
                /\ inflight' = Proceed(r, [inflight[r] EXCEPT
                                  !.pc = "check",
                                  !.venueId = CHOOSE k \in ByGooglePlaceId(
                                                 venue, inflight[r].ref) : TRUE])
                /\ response' = NoResponse
                /\ UNCHANGED venue
           ELSE /\ Cardinality(DOMAIN venue) < MaxVenues
                /\ venue' = Insert(venue, row)
                /\ inflight' = Proceed(r, [inflight[r] EXCEPT
                                  !.pc = "check", !.venueId = row.id])
                /\ response' = NoResponse
    /\ UNCHANGED <<now, ticks, votes, adminSetting, cache, enrichment>>

\* createVenueFromGooglePlace: prisma venue.create, which a unique index
\* refuses when a venue is linked to the place by now or two of the
\* operating_hours rows are for one day
createVenue(r) ==
    /\ r \in DOMAIN inflight
    /\ inflight[r].pc = "create"
    /\ LET place == GooglePlaces[FirstIndex(GooglePlaces, inflight[r].ref)]
           row == PromotedRow(venue, place)
       IN  IF \/ venues_googlePlaceId_key(venue, inflight[r].ref)
              \/ operating_hours_venueId_day_key(row.operatingHours)
           THEN /\ inflight' = Done(r)
                /\ response' = Refusal(inflight[r], 500)
                /\ UNCHANGED venue
           ELSE /\ Cardinality(DOMAIN venue) < MaxVenues
                /\ venue' = Insert(venue, row)
                /\ inflight' = Proceed(r, [inflight[r] EXCEPT
                                  !.pc = "check", !.venueId = row.id])
                /\ response' = NoResponse
    /\ UNCHANGED <<now, ticks, votes, adminSetting, cache, enrichment>>

\* voteForVenue from the venue it got to the answer of checkVoteCooldown
checkVote(r) ==
    /\ r \in DOMAIN inflight
    /\ inflight[r].pc = "check"
    /\ LET req == inflight[r]
           code == IF adminSetting.shouldValidateLocation
                      /\ TooFar(req.latitude, venue[req.venueId]) THEN 403
                   ELSE IF adminSetting.shouldValidateTime
                           /\ InCooldown(votes, req.userId, req.venueId, now)
                        THEN 429
                   ELSE 200
       IN  IF code = 200
           THEN /\ inflight' = Proceed(r, [req EXCEPT !.pc = "insert",
                                                      !.seen = Len(votes)])
                /\ response' = NoResponse
           ELSE /\ inflight' = Done(r)
                /\ response' = Refusal(req, code)
    /\ UNCHANGED <<now, ticks, venue, votes, adminSetting, cache, enrichment>>

\* voteForVenue: prisma votes.create
insertVote(r) ==
    /\ r \in DOMAIN inflight
    /\ inflight[r].pc = "insert"
    /\ votes' = Append(votes, [userId |-> inflight[r].userId,
                               venueId |-> inflight[r].venueId,
                               isOpen |-> inflight[r].isOpen,
                               createdAt |-> now])
    /\ inflight' = Proceed(r, [inflight[r] EXCEPT !.pc = "status"])
    /\ response' = NoResponse
    /\ UNCHANGED <<now, ticks, venue, adminSetting, cache, enrichment>>

\* voteForVenue: the status after the insert, and the answer
resolveStatus(r, tzOk) ==
    /\ r \in DOMAIN inflight
    /\ inflight[r].pc = "status"
    /\ inflight' = Done(r)
    /\ response' =
         [kind |-> "vote", code |-> 200, userId |-> inflight[r].userId,
          google |-> inflight[r].google, ref |-> inflight[r].ref,
          latitude |-> inflight[r].latitude, venueId |-> inflight[r].venueId,
          isOpen |-> inflight[r].isOpen,
          currentStatus |->
              getVenueStatus(venue, votes, inflight[r].venueId, tzOk, now)]
    /\ UNCHANGED <<now, ticks, venue, votes, adminSetting, cache, enrichment>>

\* ------------------------------------- overlapping vote requests (SpecRace)
\* the request numbers: two requests overlap at a time
RequestNrs == {1, 2}

\* the registry holds one venue, and both switches are on
InitRace ==
    /\ now = Week + Day + 18 * Hour
    /\ ticks = 0
    /\ venue = Insert(<<>>, CreatedRow(<<>>,
                  [name |-> "Harbour", catgegory |-> "BAR", latitude |-> 0,
                   startTime |-> <<9, 0>>, endTime |-> <<17, 0>>,
                   closedDays |-> {}]))
    /\ votes = <<>>
    /\ adminSetting = [shouldValidateLocation |-> TRUE,
                       shouldValidateTime |-> TRUE]
    /\ cache = <<>>
    /\ inflight = <<>>
    /\ enrichment = NoEnrichment
    /\ response = NoResponse

\* time passes while requests are in flight
RaceWait ==
    /\ \E step \in VoteSteps : Advance(step)

\* a new request takes the lowest free request number
RaceSteps ==
    \E r \in RequestNrs :
        \/ /\ \A q \in RequestNrs : q < r => q \in DOMAIN inflight
           /\ \E u \in VoteUsers, id \in VotedIds :
                 findVenue(r, u, id, [isOpen |-> TRUE, latitude |-> 5])
        \/ fetchPlace(r, TRUE)
        \/ createVenue(r)
        \/ checkVote(r)
        \/ insertVote(r)
        \/ resolveStatus(r, TRUE)

NextRace == RaceWait \/ RaceSteps

SpecRace == InitRace /\ [][NextRace]_vars

\* --------------------------------------------- claims on the vote submission
\* the grid cell of a coordinate: a cell is 0.01 degree, 11.1 units of 100 m
Cell(latitude) == (latitude * 10) \div 111

\* the step is a vote request, answered by response'
VoteAnswered == response'.kind \in {"vote", "error"} /\ "userId" \in DOMAIN response'

\* the step records one vote of the asking user on the resolved venue, now
VoteRecorded ==
    /\ Len(votes') = Len(votes) + 1
    /\ SubSeq(votes', 1, Len(votes)) = votes
    /\ votes'[Len(votes')].userId = response'.userId
    /\ votes'[Len(votes')].venueId = response'.venueId
    /\ votes'[Len(votes')].createdAt = now

\* a vote of the asking user on the resolved venue lies no more than the
\* cooldown window back
VotedLately ==
    \E i \in 1..Len(votes) :
        /\ votes[i].userId = response'.userId
        /\ votes[i].venueId = response'.venueId
        /\ now - votes[i].createdAt <= VOTE_COOLDOWN_S

\* C11: with the cooldown switch on, a vote request that found its venue and
\* passed the distance check is refused with 429 and recorded nowhere when the
\* same user voted on the same venue within the cooldown window (so at half
\* the window), and is accepted and recorded otherwise (so one second past the
\* window); votes of other users or on other venues do not count.
C11_Cooldown ==
    [][(VoteAnswered /\ adminSetting.shouldValidateTime
            /\ response'.code \notin {403, 404})
          => IF VotedLately
             THEN response'.code = 429 /\ votes' = votes
             ELSE response'.code = 200 /\ VoteRecorded]_vars

\* a user is refused half a window after their vote on the venue, while
\* another user has voted on it in between
C11_Witness ==
    /\ response.kind = "error"
    /\ response.code = 429
    /\ adminSetting.shouldValidateTime
    /\ \E i \in 1..Len(votes) :
          /\ votes[i].userId = response.userId
          /\ votes[i].venueId = response.venueId
          /\ now = votes[i].createdAt + VOTE_COOLDOWN_S \div 2

\* the venues of a registry linked to an external identifier
LinkedTo(vt, placeId) == {k \in DOMAIN vt : vt[k].googlePlaceId = placeId}

\* C12: of two vote requests on google_<placeId> made one after the other,
\* the first creates one internal venue linked to placeId, the second finds
\* that venue and creates nothing; one venue is linked to placeId afterwards
\* and the votes recorded by both belong to it.
C12_PromotionIdempotent ==
    /\ [](\A p \in PlaceIds : Cardinality(LinkedTo(venue, p)) <= 1)
    /\ [][(VoteAnswered /\ response'.google)
             => /\ IF LinkedTo(venue, response'.ref) # {}
                   THEN venue' = venue
                   ELSE \/ response'.code = 404 /\ venue' = venue
                        \/ /\ Cardinality(DOMAIN venue') =
                                  Cardinality(DOMAIN venue) + 1
                           /\ \A k \in DOMAIN venue : venue'[k] = venue[k]
                /\ response'.code # 404
                     => /\ LinkedTo(venue', response'.ref) = {response'.venueId}
                        /\ response'.code = 200 => VoteRecorded]_vars

\* both votes on a place of the provider are held by the one venue linked to it
C12_Witness ==
    /\ response.kind = "vote"
    /\ response.google
    /\ Cardinality(LinkedTo(venue, response.ref)) = 1
    /\ Len(votes) = 2
    /\ \A i \in 1..2 : votes[i].venueId \in LinkedTo(venue, response.ref)

\* the distance from the asking user to the resolved venue, in 1e-7 miles
MeasuredDistance ==
    calculateDistance(response'.latitude, venue'[response'.venueId].latitude)

\* C14: with the switch shouldValidateLocation on, a vote from farther than
\* the maximum distance from its venue is refused with 403 and the measured
\* distance, and no vote is recorded; a vote from within the maximum is not
\* refused for distance; with the switch off no vote is refused for distance.
C14_Proximity ==
    [][(VoteAnswered /\ response'.code # 404)
          => IF adminSetting.shouldValidateLocation
                /\ MeasuredDistance > MAX_DISTANCE_MILES * 10000000
             THEN /\ response'.code = 403
                  /\ response'.miles = toFixed2(MeasuredDistance)
                  /\ votes' = votes
             ELSE response'.code # 403]_vars

\* a user just outside the radius of the venue is refused
C14_Witness ==
    /\ response.kind = "error"
    /\ response.code = 403
    /\ adminSetting.shouldValidateLocation
    /\ response.latitude = 161
    /\ response.venueId = "v1"
    /\ response.miles = MAX_DISTANCE_MILES * 100

\* the identifiers of the places the cache holds for the cell of a coordinate
CachedPlaceIds(c, latitude) ==
    IF Cell(latitude) \in DOMAIN c
    THEN {c[Cell(latitude)].value[i].placeId :
             i \in 1..Len(c[Cell(latitude)].value)}
    ELSE {}

\* the asked id names no venue: an internal id of no row, or a place no venue
\* is linked to and which the list looked up for the user's cell does not hold
Unresolvable ==
    IF response'.google
    THEN /\ LinkedTo(venue, response'.ref) = {}
         /\ response'.ref \notin CachedPlaceIds(cache', response'.latitude)
    ELSE response'.ref \notin DOMAIN venue

\* C15: a vote on an internal id of no venue, or on google_<placeId> when no
\* venue is linked to placeId and the cache lookup by identifier finds
\* nothing, fails with 404, creates no venue and records no vote; no other
\* vote fails with 404.
C15_NotFound ==
    [][VoteAnswered
          => IF Unresolvable
             THEN response'.code = 404 /\ venue' = venue /\ votes' = votes
             ELSE response'.code # 404]_vars

\* a place of the provider that the lookup from the user's cell does not find
C15_Witness ==
    /\ response.kind = "error"
    /\ response.code = 404
    /\ response.google
    /\ response.ref = "gA"
    /\ response.latitude = 5
    /\ DOMAIN venue = {"v1"}
    /\ votes = <<>>

\* the status the provider's opening periods of a place give now
ProviderStatus(placeId) ==
    LET place == GooglePlaces[CHOOSE i \in 1..Len(GooglePlaces) :
                                 GooglePlaces[i].placeId = placeId]
    IN  IF isWithinPeriods(place.periods,
                           getTimezone(place.latitude, TRUE), now)
        THEN OPEN ELSE CLOSED

\* C17: getVenueById on google_<placeId> answers with the internal record
\* (source 'database', status resolved over its hours and votes) whenever an
\* internal venue is linked to placeId, so at any time after a vote promoted
\* the place; the status derived from the provider is answered only while no
\* internal venue is linked to placeId.
C17_OneStatusPath ==
    (response.kind = "venue" /\ response.google)
        => IF LinkedTo(venue, response.ref) # {}
           THEN /\ response.code = 200
                /\ response.item.source = "database"
                /\ response.item.id.ref \in LinkedTo(venue, response.ref)
                /\ response.item.status =
                       getVenueStatus(venue, votes, response.item.id.ref,
                                      TRUE, now)
           ELSE \/ response.code = 404
                \/ /\ response.item.source = "google"
                   /\ response.item.status = ProviderStatus(response.ref)

\* the place has been promoted by a vote and is looked up by its external id
C17_Witness ==
    /\ response.kind = "venue"
    /\ response.google
    /\ response.code = 200
    /\ response.item.source = "database"
    /\ \E i \in 1..Len(votes) :
          votes[i].venueId \in LinkedTo(venue, response.ref)

\* the votes before the one recorded last
VotesBefore == SubSeq(votes, 1, Len(votes) - 1)

\* C18: the currentStatus a successful vote returns is the verdict of the
\* resolver over the votes after the insert, the vote just recorded among
\* them, not the verdict over the votes before it.
C18_ImmediateFeedback ==
    response.kind = "vote"
        => /\ votes # <<>>
           /\ votes[Len(votes)].userId = response.userId
           /\ votes[Len(votes)].venueId = response.venueId
           /\ votes[Len(votes)].createdAt = now
           /\ response.currentStatus =
                  getVenueStatus(venue, votes, response.venueId, TRUE, now)

\* the vote just recorded turned the verdict: before it the venue was OPEN
C18_Witness ==
    /\ response.kind = "vote"
    /\ response.currentStatus = CLOSED
    /\ getVenueStatus(venue, VotesBefore, response.venueId, TRUE, now) = OPEN

\* ------------------------------------------------- claims on the place cache
\* C13: a request for the places at a coordinate whose grid cell holds an
\* entry stored less than the TTL ago, by a request at whatever coordinate of
\* that cell, returns the stored list and does not call the provider; a
\* request in a cell without entry, or with an expired one, calls the provider
\* and stores its result for the TTL.
C13_GridCacheReuse ==
    [][response'.kind = "places"
          => LET cell == Cell(response'.latitude)
             IN  IF cell \in DOMAIN cache /\ now < cache[cell].expires
                 THEN /\ ~response'.called
                      /\ response'.places = cache[cell].value
                      /\ cache' = cache
                 ELSE /\ response'.called
                      /\ cell \in DOMAIN cache'
                      /\ cache'[cell] = [value |-> response'.places,
                                         expires |-> now + CACHE_TTL_S]]_vars

\* a request at coordinate 5 is served the list a request at coordinate 0 of
\* the same cell stored: the place within 5000 m of 5 only is not in it
C13_Witness ==
    /\ response.kind = "places"
    /\ ~response.called
    /\ response.latitude = 5
    /\ response.places # <<>>
    /\ \A i \in 1..Len(response.places) : response.places[i].placeId # "gA"

\* ------------------------------------- more claims on the location query
\* the internal venues the filter of the query selects
Candidates ==
    {k \in DOMAIN venue :
        dbWhere(venue[k], response'.search, response'.latitude)}

\* C16: when the provider's nearby search fails while the cache is being
\* populated for a location query, the query still succeeds and returns every
\* internal venue its filter selects, and no external item.
C16_GracefulDegradation ==
    [][(response'.kind = "venues" /\ response'.providerFailed)
          => /\ response'.code = 200
             /\ \A k \in Candidates :
                   \E i \in 1..Len(response'.allVenues) :
                      /\ response'.allVenues[i].id = [google |-> FALSE, ref |-> k]
                      /\ response'.allVenues[i].source = "database"
             /\ \A i \in 1..Len(response'.allVenues) :
                   response'.allVenues[i].source = "database"
             /\ response'.total = Cardinality(Candidates)]_vars

\* the provider failed and the venues of the registry are returned alone
C16_Witness ==
    /\ response.kind = "venues"
    /\ response.providerFailed
    /\ response.code = 200
    /\ response.total > 0
    /\ response.venues # <<>>

\* ------------------------------------ claims on overlapping vote requests
\* request r records its vote in this step
Inserts(r) ==
    /\ r \in DOMAIN inflight
    /\ inflight[r].pc = "insert"
    /\ r \in DOMAIN inflight'
    /\ inflight'[r].pc = "status"

\* two votes of one user on one venue, recorded less than the window apart
VotedTwiceInWindow ==
    \E i, j \in 1..Len(votes) :
        /\ i < j
        /\ votes[i].userId = votes[j].userId
        /\ votes[i].venueId = votes[j].venueId
        /\ votes[j].createdAt - votes[i].createdAt < VOTE_COOLDOWN_S

\* C19: the cooldown check and the insert of a vote are separate steps, so
\* with the cooldown switch on two overlapping requests of one user on one
\* venue can both pass the check and both be recorded less than the window
\* apart: whenever a vote is recorded within the window of an earlier vote of
\* that user on that venue, the earlier one was recorded after the check of
\* the later request.
C19_CooldownRace ==
    [][\A r \in RequestNrs :
          (Inserts(r) /\ adminSetting.shouldValidateTime)
             => \A i \in 1..Len(votes) :
                   (/\ votes[i].userId = inflight[r].userId
                    /\ votes[i].venueId = inflight[r].venueId
                    /\ now - votes[i].createdAt <= VOTE_COOLDOWN_S)
                      => i > inflight[r].seen]_vars

\* the switch is on and a user has two votes on a venue within the window
C19_Witness ==
    /\ adminSetting.shouldValidateTime
    /\ VotedTwiceInWindow

\* C20: whatever vote requests ran, one after the other or overlapping, at
\* most one internal venue is linked to an external identifier.
C20_ExternalIdUnique ==
    \A p \in PlaceIds : Cardinality(LinkedTo(venue, p)) <= 1

\* of two overlapping first votes of different users on a place, one has
\* created its venue and the other was refused by the unique index
C20_Witness ==
    /\ response.kind = "error"
    /\ response.code = 500
    /\ response.google
    /\ Cardinality(LinkedTo(venue, response.ref)) = 1
    /\ \/ \E i \in 1..Len(votes) :
             /\ votes[i].userId # response.userId
             /\ votes[i].venueId \in LinkedTo(venue, response.ref)
       \/ \E r \in DOMAIN inflight :
             /\ inflight[r].userId # response.userId
             /\ inflight[r].venueId \in LinkedTo(venue, response.ref)

\* ------------------------------- the provider search, lookup by lookup
\* batchSize of enrichPlacesWithDetails
batchSize == 10
\* predictions.slice(0, 20) of searchNearbyVenues
MaxPredictions == 20

\* what a place-details request gives: a result with opening_hours, a result
\* without, or null (status not OK, or the request failed)
DetailsOutcomes == {"hours", "noHours", "null"}

\* mapPlaces: the places of a nearby response, in its order; the places in
\* carried come with opening hours
mapPlaces(n, carried) ==
    [i \in 1..n |->
        [placeId |-> i,
         operatingHours |-> IF i \in carried THEN "nearby" ELSE "none"]]

\* placesToEnrich, as positions in the list of places
placesToEnrich(places) ==
    SelectSeq([i \in 1..Len(places) |-> i],
              LAMBDA i : places[i].operatingHours = "none")

\* the number of batches of a list to enrich
Batches(toEnrich) == (Len(toEnrich) + batchSize - 1) \div batchSize

\* batches[b - 1]: placesToEnrich.slice(i, i + batchSize)
BatchOf(toEnrich, b) ==
    {toEnrich[k] : k \in {j \in 1..Len(toEnrich) :
                             /\ j > (b - 1) * batchSize
                             /\ j <= b * batchSize}}

\* the answer of searchNearbyVenues
Nearby(search, places, results) ==
    [kind |-> "nearby", search |-> search, places |-> places,
     results |-> results]

\* the mutant lets a failed lookup reject the batch: the search then answers
\* with the empty list of its catch block
settle_RejectsBatch(e, i, details) ==
    IF details = "null"
    THEN [e EXCEPT !.phase = "done", !.places = <<>>, !.pending = {}]
    ELSE [e EXCEPT !.places[i].operatingHours =
                       IF details = "hours" THEN "details" ELSE @,
                   !.pending = @ \ {i},
                   !.phase = IF e.pending # {i} THEN "batch"
                             ELSE IF e.batch < Batches(e.toEnrich)
                                  THEN "pause" ELSE "done"]

\* one callback of batch.map: the lookup of place i settles with details; the
\* batch is over when its last lookup has settled
settle(e, i, details) ==
    [e EXCEPT !.places[i].operatingHours =
                  IF details = "hours" THEN "details" ELSE @,
              !.pending = @ \ {i},
              !.phase = IF e.pending # {i} THEN "batch"
                        ELSE IF e.batch < Batches(e.toEnrich)
                             THEN "pause" ELSE "done"]

\* the enrichment record and the answer once the search is over
Proceeds(e) ==
    /\ enrichment' = e
    /\ response' = IF e.phase = "done"
                   THEN Nearby(e.search, e.places, e.results)
                   ELSE response
    /\ UNCHANGED <<now, ticks, venue, votes, adminSetting, cache, inflight>>

\* searchNearbyVenues without a search term: placesNearby, mapPlaces and the
\* first batch of enrichPlacesWithDetails
placesNearby(n, carried, providerOk) ==
    \E places \in {IF providerOk THEN mapPlaces(n, carried) ELSE <<>>} :
    \E todo \in {placesToEnrich(places)} :
        /\ enrichment.phase = "idle"
        /\ Proceeds([phase |-> IF Len(todo) = 0 THEN "done" ELSE "batch",
                     search |-> FALSE, places |-> places, toEnrich |-> todo,
                     batch |-> IF Len(todo) = 0 THEN 0 ELSE 1,
                     pending |-> BatchOf(todo, 1), results |-> {}])

\* a lookup of the batch in progress settles
detailsSettle(i, details) ==
    /\ enrichment.phase = "batch"
    /\ i \in enrichment.pending
    /\ Proceeds(settle(enrichment, i, details))

\* the pause between two batches is over: the lookups of the next batch start
nextBatch ==
    /\ enrichment.phase = "pause"
    /\ Proceeds([enrichment EXCEPT
                    !.phase = "batch",
                    !.batch = @ + 1,
                    !.pending = BatchOf(enrichment.toEnrich,
                                        enrichment.batch + 1)])

\* searchNearbyVenues with a search term: placeAutocomplete, then the lookups
\* of the first predictions, all started by one map
placeAutocomplete(n, providerOk) ==
    \E predictions \in {IF providerOk THEN 1..n ELSE {}} :
        /\ enrichment.phase = "idle"
        /\ Proceeds([phase |-> IF predictions = {} THEN "done" ELSE "details",
                     search |-> TRUE, places |-> <<>>, toEnrich |-> <<>>,
                     batch |-> 0,
                     pending |-> {i \in predictions : i <= MaxPredictions},
                     results |-> {}])

\* the lookup of a prediction settles: with details the place joins the
\* results, without it is left out (the order of the results is the order in
\* which the lookups settle and is not kept here)
predictionSettles(i, found) ==
    /\ enrichment.phase = "details"
    /\ i \in enrichment.pending
    /\ Proceeds([enrichment EXCEPT
                    !.pending = @ \ {i},
                    !.results = IF found THEN @ \cup {i} ELSE @,
                    !.phase = IF enrichment.pending = {i} THEN "done"
                              ELSE "details"])

InitEnrich ==
    /\ now = Week
    /\ ticks = 0
    /\ venue = <<>>
    /\ votes = <<>>
    /\ adminSetting = [shouldValidateLocation |-> TRUE,
                       shouldValidateTime |-> TRUE]
    /\ cache = <<>>
    /\ inflight = <<>>
    /\ enrichment = NoEnrichment
    /\ response = NoResponse

\* nearby responses: how many places, and which of them carry opening hours
NearbyCounts == {0, 2, MaxPlaces}
NearbyResponses ==
    {<<0, {}>>, <<2, {1, 2}>>, <<2, {2}>>, <<MaxPlaces, {2}>>}
PredictionCounts == {2, batchSize + 1}

NearbySearches ==
    \E nearby \in NearbyResponses, providerOk \in BOOLEAN :
        placesNearby(nearby[1], nearby[2], providerOk)

LookupsSettle ==
    \E i \in 1..MaxPlaces, details \in DetailsOutcomes :
        detailsSettle(i, details)

TermSearches ==
    \E n \in PredictionCounts, providerOk \in BOOLEAN :
        placeAutocomplete(n, providerOk)

PredictionsSettle ==
    \E i \in 1..MaxPredictions, found \in BOOLEAN :
        predictionSettles(i, found)

NextEnrich == NearbySearches \/ LookupsSettle \/ nextBatch

\* the nearby search alone; every lookup settles and every pause ends
SpecEnrich == InitEnrich /\ [][NextEnrich]_vars /\ WF_vars(NextEnrich)

NextSearch ==
    \/ NearbySearches
    \/ LookupsSettle
    \/ nextBatch
    \/ TermSearches
    \/ PredictionsSettle

SpecSearch == InitEnrich /\ [][NextSearch]_vars

\* --------------------------------------------- claims on the enrichment
\* the identifiers of a list of places, in its order
PlaceIdsOf(places) == [i \in 1..Len(places) |-> places[i].placeId]

\* the lookups that settled without opening hours
LeftAlone(e) ==
    {i \in 1..Len(e.places) :
        /\ e.places[i].operatingHours = "none"
        /\ i \notin e.pending
        /\ \E b \in 1..e.batch : i \in BatchOf(e.toEnrich, b)}

\* C21: a place-details lookup that fails or returns nothing leaves its place
\* in the list without enrichment; the list keeps the places of the nearby
\* response in their order, the lookups of the same and of later batches
\* still settle, and the enrichment ends after the last batch whatever
\* lookups failed.
C21_EnrichmentIsolated ==
    /\ [](enrichment.phase \in {"batch", "pause", "done"}
             => \E n \in NearbyCounts \cup {0} :
                   PlaceIdsOf(enrichment.places) = PlaceIdsOf(mapPlaces(n, {})))
    /\ [][enrichment.phase \in {"batch", "pause"}
             => /\ PlaceIdsOf(enrichment'.places) = PlaceIdsOf(enrichment.places)
                /\ \A i \in 1..Len(enrichment.places) :
                      enrichment'.places[i].operatingHours
                         \in {enrichment.places[i].operatingHours, "details"}]_vars
    /\ [](enrichment.phase = "done"
             => /\ enrichment.pending = {}
                /\ enrichment.batch = Batches(enrichment.toEnrich)
                /\ response = Nearby(FALSE, enrichment.places, {}))
    /\ (enrichment.phase = "batch") ~> (enrichment.phase = "done")

\* a lookup of the first batch gave nothing, a place of the second batch was
\* enriched, and the search has answered
C21_Witness ==
    /\ enrichment.phase = "done"
    /\ enrichment.batch = 2
    /\ LeftAlone(enrichment) \cap BatchOf(enrichment.toEnrich, 1) # {}
    /\ \E i \in BatchOf(enrichment.toEnrich, 2) :
          response.places[i].operatingHours = "details"

NotVoted == "Not Voted"

\* the openNow hint of a place
OpenNowOf(placeId) ==
    GooglePlaces[CHOOSE i \in 1..Len(GooglePlaces) :
                    GooglePlaces[i].placeId = placeId].openNow

\* C23: an external snapshot returned by getVenuesByLocation has the status
\* the openNow hint of its place gives: OPEN when it is true, CLOSED when it
\* is false, the marker of an unresolved status when the place has none.
C23_StatusFromHints ==
    response.kind = "venues"
        => \A i \in 1..Len(response.allVenues) :
              LET item == response.allVenues[i]
                  openNow == OpenNowOf(item.googlePlaceId)
              IN  item.source = "google"
                     => item.status = IF openNow = NULL THEN NotVoted
                                      ELSE IF openNow = "true" THEN OPEN
                                      ELSE CLOSED

\* ------------------------------------------- the vote ledger (SpecLedger)
\* one user votes open or closed, near the venue or too far from it, on the
\* venue, on a place of the provider and on a venue that does not exist
LedgerVotes ==
    \E id \in VotedIds \cup {[google |-> FALSE, ref |-> "v9"]},
       lat \in {5, 161}, isOpen \in BOOLEAN :
        voteForVenue("u1", id, [isOpen |-> isOpen, latitude |-> lat],
                     TRUE, TRUE)

NextLedger == HourPasses \/ LedgerVotes

SpecLedger == InitVote /\ [][NextLedger]_vars

\* C24: a vote request that succeeds appends one vote to the ledger, with the
\* asking user, the internal venue the request resolved and the submitted
\* isOpen; a request that is refused (404, 403, 429) leaves the ledger as it
\* is; the votes recorded before are never changed or removed.
C24_AppendOnlyLedger ==
    [][VoteAnswered
          => IF response'.code = 200
             THEN /\ response'.venueId \in DOMAIN venue'
                  /\ votes' = Append(votes,
                                 [userId |-> response'.userId,
                                  venueId |-> response'.venueId,
                                  isOpen |-> response'.isOpen,
                                  createdAt |-> now])
             ELSE /\ response'.code \in {404, 403, 429}
                  /\ votes' = votes]_vars

\* the user has voted open and closed on one venue, both votes are in the
\* ledger
C24_Witness ==
    /\ response.kind = "vote"
    /\ Len(votes) = 2
    /\ votes[1].userId = votes[2].userId
    /\ votes[1].venueId = votes[2].venueId
    /\ votes[1].isOpen # votes[2].isOpen

\* --------------------------------- promotion of a place (SpecPromotion)
\* the places voted on: without opening periods, with two periods that open
\* on one weekday, with one period per weekday
PromotedIds ==
    {[google |-> TRUE, ref |-> p] : p \in {"gA", "gE", "gF"}}

\* a user votes on a place of the provider from where the place is
PromotionVotes ==
    \E u \in VoteUsers, id \in PromotedIds, lat \in {5, 300} :
        voteForVenue(u, id, [isOpen |-> TRUE, latitude |-> lat], TRUE, TRUE)

NextPromotion == HourPasses \/ PromotionVotes

SpecPromotion == InitVote /\ [][NextPromotion]_vars

\* the snapshot of a place the provider knows
PlaceOf(placeId) ==
    GooglePlaces[CHOOSE i \in 1..Len(GooglePlaces) :
                    GooglePlaces[i].placeId = placeId]

\* C25: a vote on a place no venue is linked to, whose snapshot the lookup
\* finds, creates an internal venue with the name, category, coordinate and
\* declared hours of the snapshot, whatever the shape of the declared hours,
\* and the vote proceeds on that venue.
C25_PromotionSnapshotsHours ==
    [][(/\ VoteAnswered
        /\ response'.google
        /\ LinkedTo(venue, response'.ref) = {}
        /\ response'.ref \in CachedPlaceIds(cache', response'.latitude))
          => /\ response'.code \in {200, 403, 429}
             /\ response'.venueId \in LinkedTo(venue', response'.ref)
             /\ \A k \in LinkedTo(venue', response'.ref) :
                   /\ venue'[k].name = PlaceOf(response'.ref).name
                   /\ venue'[k].catgegory = PlaceOf(response'.ref).category
                   /\ venue'[k].latitude = PlaceOf(response'.ref).latitude
                   /\ venue'[k].operatingHours =
                         extractAllWeekHours(PlaceOf(response'.ref).periods)]_vars

\* ------------------------------------------- claims on the place cache
\* C26: the search term is part of the cache key: a location query that
\* follows a query which filled the cache entry of its grid cell for another
\* search term (or for none) is not answered from that entry, it calls the
\* provider.
C26_SearchKeyedCache ==
    [][(/\ response.kind = "venues"
        /\ response'.kind = "venues"
        /\ response.providerCalled
        /\ Cell(response.latitude) = Cell(response'.latitude)
        /\ response.search # response'.search)
          => response'.providerCalled]_vars

\* ------------------------- a refused first vote on a place (SpecStranded)
\* a user votes on a place the provider returned from beyond the radius,
\* standing more than MAX_DISTANCE_MILES from it or next to it
StrandedVotes ==
    \E isOpen \in BOOLEAN, lat \in {600, 790} :
        voteForVenue("u1", [google |-> TRUE, ref |-> "gH"],
                     [isOpen |-> isOpen, latitude |-> lat], TRUE, TRUE)

\* the place is looked up by its external identifier
StrandedLookups ==
    \E lat \in {600, 790}, providerOk \in BOOLEAN :
        getVenueById([google |-> TRUE, ref |-> "gH"], [latitude |-> lat],
                     providerOk, TRUE)

NextStranded == HourPasses \/ StrandedVotes \/ StrandedLookups

SpecStranded == InitVote /\ [][NextStranded]_vars

\* C27: the promotion comes before the proximity check and is not undone: a
\* vote on a place no venue is linked to that is refused with 403 leaves the
\* venue it created in the registry and records no vote; no venue ever leaves
\* the registry, and a later lookup of the place answers with the internal
\* venue.
C27_PromotionNotRolledBack ==
    /\ [][(/\ VoteAnswered
           /\ response'.code = 403
           /\ response'.google
           /\ LinkedTo(venue, response'.ref) = {})
             => /\ LinkedTo(venue', response'.ref) = {response'.venueId}
                /\ votes' = votes]_vars
    /\ [][\A k \in DOMAIN venue : k \in DOMAIN venue' /\ venue'[k] = venue[k]]_vars
    /\ [](response.kind = "venue" /\ response.google
             /\ LinkedTo(venue, response.ref) # {}
             => /\ response.code = 200
                /\ response.item.source = "database"
                /\ response.item.id.ref \in LinkedTo(venue, response.ref))

\* the place is answered as an internal venue although no vote was ever
\* recorded: the venue was created by a vote that was refused
C27_Witness ==
    /\ response.kind = "venue"
    /\ response.google
    /\ response.ref = "gH"
    /\ response.code = 200
    /\ response.item.source = "database"
    /\ adminSetting.shouldValidateLocation
    /\ votes = <<>>

\* ------------------------------------- claims on overlapping first votes
\* request r is at its venue.create in this step
Creates(r) ==
    /\ r \in DOMAIN inflight
    /\ inflight[r].pc = "create"
    /\ r \in DOMAIN inflight' => inflight'[r] # inflight[r]

\* C28: of vote requests on a place that all found no internal venue, one
\* creates the venue; a request whose venue.create comes after is refused by
\* the unique index, ends with an error and records no vote: it does not look
\* the venue up again.
C28_ConcurrentFirstVotes ==
    /\ [](\A p \in PlaceIds : Cardinality(LinkedTo(venue, p)) < 2)
    /\ [][\A r \in RequestNrs :
             Creates(r)
                => IF LinkedTo(venue, inflight[r].ref) # {}
                   THEN /\ r \notin DOMAIN inflight'
                        /\ venue' = venue
                        /\ votes' = votes
                        /\ response'.kind = "error"
                        /\ response'.userId = inflight[r].userId
                   ELSE /\ Cardinality(LinkedTo(venue', inflight[r].ref)) = 1
                        /\ r \in DOMAIN inflight'
                        /\ inflight'[r].pc = "check"
                        /\ inflight'[r].venueId
                              \in LinkedTo(venue', inflight[r].ref)]_vars

\* both requests are over: the vote of the one that created the venue is
\* recorded, the other ended with the refusal of the index and has no vote
C28_Witness ==
    /\ inflight = <<>>
    /\ response.kind = "error"
    /\ response.code = 500
    /\ response.google
    /\ Cardinality(LinkedTo(venue, response.ref)) = 1
    /\ Len(votes) = 1
    /\ votes[1].userId # response.userId
    /\ votes[1].venueId \in LinkedTo(venue, response.ref)

\* ------------------------------------ the vote statistics (SpecStats)
\* how many votes the venue has accumulated
LedgerSizes ==
    {0, 2, votesTakeDetail - 1, votesTakeDetail, votesTakeDetail + 1,
     votesTakeList, votesTakeList + 1}

\* n votes of one user on the venue, a minute apart, the last one a minute
\* before t; the first k of them say open
Ledger(n, k, t) ==
    [i \in 1..n |-> [userId |-> "u1", venueId |-> "v1", isOpen |-> i <= k,
                     createdAt |-> t - (n - i + 1) * 60]]

\* the registry holds one venue, which has accumulated votes
InitStats ==
    /\ now = Week + Day + 18 * Hour
    /\ ticks = 0
    /\ venue = Insert(<<>>, CreatedRow(<<>>,
                  [name |-> "Harbour", catgegory |-> "BAR", latitude |-> 0,
                   startTime |-> <<9, 0>>, endTime |-> <<17, 0>>,
                   closedDays |-> {}]))
    /\ \E n \in LedgerSizes, k \in {0, 1, 30} :
          votes = Ledger(n, IF k > n THEN n ELSE k, now)
    /\ adminSetting \in AllAdminSettings
    /\ cache = <<>>
    /\ inflight = <<>>
    /\ enrichment = NoEnrichment
    /\ response = NoResponse

\* the venue is looked up
StatsLookups ==
    \E lat \in {0, 5} :
        getVenueById([google |-> FALSE, ref |-> "v1"], [latitude |-> lat],
                     TRUE, TRUE)

\* the venues around are listed
StatsQueries ==
    \E lat \in {0, 5}, providerOk \in BOOLEAN :
        getVenuesByLocation([latitude |-> lat, search |-> NULL, page |-> 1,
                             limit |-> 2], providerOk, TRUE)

NextStats == HourPasses \/ StatsLookups \/ StatsQueries

SpecStats == InitStats /\ [][NextStats]_vars

\* the items of internal venues in the last answer, with the `take` of the
\* query that built them
StatsItems ==
    IF response.kind = "venue" /\ response.code = 200
    THEN IF response.item.source = "database"
         THEN {[item |-> response.item, take |-> votesTakeDetail]}
         ELSE {}
    ELSE IF response.kind = "venues"
    THEN {[item |-> response.allVenues[i], take |-> votesTakeList] :
             i \in {j \in 1..Len(response.allVenues) :
                       response.allVenues[j].source = "database"}}
    ELSE {}

\* C29: in every item of an internal venue returned by
\* getVenuesByLocation or getVenueById, voteStats.total is the sum of
\* voteStats.open and voteStats.closed, however many votes the venue has.
C29_VoteStatsConsistent ==
    \A x \in StatsItems :
        x.item.voteStats.total
            = x.item.voteStats.open + x.item.voteStats.closed

\* ------------------------------------------- empty lists in the place cache
\* the cell of the coordinate holds an empty list that has not expired
HoldsEmpty(c, latitude, t) ==
    /\ getCacheKey(latitude) \in DOMAIN c
    /\ t < c[getCacheKey(latitude)].expires
    /\ c[getCacheKey(latitude)].value = <<>>

\* C30: a request that misses the cache and gets an empty list from the
\* provider (no place in reach, or the call failed) stores the empty list
\* under the grid key for the life of an entry; a request in a cell whose
\* entry is an empty list that has not expired returns no places, does not
\* call the provider and leaves the cache as it is.
C30_EmptyResultsCached ==
    [][response'.kind = "places" =>
          /\ (response'.called /\ response'.places = <<>>) =>
                /\ getCacheKey(response'.latitude) \in DOMAIN cache'
                /\ cache'[getCacheKey(response'.latitude)]
                      = [value |-> <<>>, expires |-> now + CACHE_TTL_S]
          /\ HoldsEmpty(cache, response'.latitude, now) =>
                /\ ~response'.called
                /\ response'.places = <<>>
                /\ cache' = cache]_vars

\* a request was answered from the cache with the empty list a failed call
\* had left there, at a coordinate with places in reach
C30_Witness ==
    /\ response.kind = "places"
    /\ ~response.called
    /\ response.places = <<>>
    /\ HoldsEmpty(cache, response.latitude, now)
    /\ searchNearbyVenues(response.latitude, 50, TRUE) # <<>>

====
